---- MODULE Spec2Model ----
(***************************************************************************)
(* Verification model of nmstate (rust/src/lib):                           *)
(*   - BaseInterface::update, the touched-property overlay                 *)
(*     (query_apply/base.rs);                                              *)
(*   - the kernel route collector and its conversions (nispor/route.rs).   *)
(*                                                                         *)
(* Option<T> is modelled as a sequence: None is <<>>, Some(x) is <<x>>.    *)
(* Vec<T> is modelled as a sequence, in push order.                        *)
(***************************************************************************)
EXTENDS Integers, Sequences, FiniteSets, TLC

VARIABLES
    self,       \* the BaseInterface being overlaid (&mut self of update)
    calls,      \* the update calls made so far: [before, other] per call
    rpc,        \* position of the route conversion under test
    np_route,   \* the nispor::Route handed to the conversion
    entries,    \* the Vec<RouteEntry> the conversion produced
    gpc,        \* position of get_routes
    running_config_only, \* argument of get_routes
    kernel,     \* the routes the kernel holds (what nispor can retrieve)
    proto_idx,  \* index of the next protocol get_routes queries
    np_routes,  \* get_routes: the collected Vec<nispor::Route>
    warned,     \* get_routes: protocols whose retrieval failed (log::warn)
    queried,    \* get_routes: the protocols retrieval was called with, in order
    ret,        \* get_routes: the Routes being built
    origin,     \* per view, the kernel route each entry of ret was made from
    gen_pc,         \* position of gen_nispor_route_confs
    changed_routes, \* merged_routes.changed_routes
    gen_ret,        \* gen_nispor_route_confs: the Vec<RouteConf> being built
    gen_result,     \* what gen_nispor_route_confs returned: confs or err
    last_conf,      \* the latest nmstate_to_nispor_route_conf call: [rt, res]
    apc,            \* position of nm_apply
    merged_state,   \* nm_apply: memory_only, hostname, dns of the merged state
    nm_plan,        \* nm_apply: the profile lists the run works on
    oplog,          \* the backend operations nm_apply issued, in order
    apply_result,   \* what nm_apply returned: None while running
    rr_pc, \* position of the route rule action conversion under test
    rr_in, \* the u8 code or NmIpRouteRuleAction converted first
    rr_mid, \* the result of the first conversion
    rr_out, \* the result of converting rr_mid back
    ac_pc, \* position of get_nm_ac_by_obj_path
    ac_backend, \* what the backend answers about the active connection queried
    nm_conn_obj_path, \* get_nm_ac_by_obj_path: the Connection path read
    ac_result, \* what get_nm_ac_by_obj_path returned: None while running
    df_pc, \* position of the gen_nm_conn_need_to_deactivate_first call under test
    df_args, \* its arguments: merged_iface, nm_conns_to_activate, activated_nm_conns
    df_ret, \* the Vec<NmConnection> it returned
    del_pc, \* position of delete_ifaces
    del_args, \* delete_ifaces: the merged interfaces and the devices of the backend
    stored_conns, \* the profiles the backend holds (what connections_get returns)
    uuids_to_delete, \* delete_ifaces: the HashSet of uuids to delete
    del_log, \* the connection_delete and device_delete calls made, in order
    del_result \* what delete_ifaces returned: None while running

baseVars  == <<self, calls>>
convVars  == <<rpc, np_route, entries>>
getVars   == <<gpc, running_config_only, kernel, proto_idx, np_routes,
               warned, queried, ret, origin>>
genVars   == <<gen_pc, changed_routes, gen_ret, gen_result, last_conf>>
applyVars == <<apc, merged_state, nm_plan, oplog, apply_result>>
ruleVars == <<rr_pc, rr_in, rr_mid, rr_out>>
acVars == <<ac_pc, ac_backend, nm_conn_obj_path, ac_result>>
dfVars == <<df_pc, df_args, df_ret>>
delVars == <<del_pc, del_args, stored_conns, uuids_to_delete, del_log, del_result>>
vars      == <<self, calls, rpc, np_route, entries, gpc, running_config_only,
               kernel, proto_idx, np_routes, warned, queried, ret, origin,
               gen_pc, changed_routes, gen_ret, gen_result, last_conf,
               apc, merged_state, nm_plan, oplog, apply_result,
               rr_pc, rr_in, rr_mid, rr_out,
               ac_pc, ac_backend, nm_conn_obj_path, ac_result,
               df_pc, df_args, df_ret,
               del_pc, del_args, stored_conns, uuids_to_delete, del_log, del_result>>

\* ----------------------------------------------------------------------
\* Option and Vec helpers
\* ----------------------------------------------------------------------
None == <<>>

Some(x) == <<x>>

IsSome(o) == Len(o) > 0

Unwrap(o) == o[1]

Range(s) == {s[i] : i \in DOMAIN s}

Contains(s, x) == \E i \in DOMAIN s : s[i] = x

Count(s, x) == Cardinality({i \in DOMAIN s : s[i] = x})

\* ----------------------------------------------------------------------
\* BaseInterface (query_apply/base.rs)
\* ----------------------------------------------------------------------

\* The attributes update copies with a plain "if touched then assign".
ScalarAttrs ==
    {"name", "description", "state", "mtu", "min_mtu", "max_mtu",
     "mac_address", "permanent_mac_address", "controller", "controller_type",
     "accept_all_mac_addresses", "ovsdb", "ieee8021x", "lldp", "ethtool",
     "mptcp", "wait_ip"}

IpAttrs == {"ipv4", "ipv6"}

AllAttrs == ScalarAttrs \cup {"iface_type"} \cup IpAttrs

\* for other_prop_name in &other.prop_list { if !contains { push } }
RECURSIVE PushProps(_, _)
PushPropsDup(mine, theirs) == mine \o theirs

PushPropsNone(mine, theirs) == mine

PushProps(mine, theirs) ==
    IF theirs = <<>> THEN mine
    ELSE PushProps(IF Contains(mine, Head(theirs)) THEN mine
                   ELSE Append(mine, Head(theirs)),
                   Tail(theirs))

\* The nested overlay of an IP block (InterfaceIpv4::update /
\* InterfaceIpv6::update): field-by-field under the same touched rule.
IpUpdate(mine, theirs) ==
    [enabled   |-> IF Contains(theirs.prop_list, "enabled")
                   THEN theirs.enabled ELSE mine.enabled,
     dhcp      |-> IF Contains(theirs.prop_list, "dhcp")
                   THEN theirs.dhcp ELSE mine.dhcp,
     prop_list |-> PushProps(mine.prop_list, theirs.prop_list)]

\* if other.prop_list.contains(&"f") { self.f = other.f.clone(); }
CopyIfSome(s, other, f) ==
    IF Contains(other.prop_list, f)
       /\ (f \in {"name", "state"} \/ other[f] # None)
    THEN [s EXCEPT ![f] = other[f]] ELSE s

CopyAlways(s, other, f) == [s EXCEPT ![f] = other[f]]

CopyIf(s, other, f) ==
    IF Contains(other.prop_list, f) THEN [s EXCEPT ![f] = other[f]] ELSE s

\* if other.prop_list.contains(&"iface_type")
\*     && other.iface_type != InterfaceType::Unknown { ... }
CopyTypeUnguarded(s, other) == CopyIf(s, other, "iface_type")

CopyType(s, other) ==
    IF Contains(other.prop_list, "iface_type") /\ other.iface_type # "Unknown"
    THEN [s EXCEPT !.iface_type = other.iface_type] ELSE s

\* if other.prop_list.contains(&"ipv4") { if let Some(o) = other.ipv4 {
\*     if let Some(s) = self.ipv4 { s.update(o) } else { self.ipv4 = clone } } }
CopyIpReplace(s, other, f) == CopyIf(s, other, f)

CopyIp(s, other, f) ==
    IF Contains(other.prop_list, f)
    THEN IF IsSome(other[f])
         THEN IF IsSome(s[f])
              THEN [s EXCEPT ![f] = Some(IpUpdate(Unwrap(s[f]),
                                                  Unwrap(other[f])))]
              ELSE [s EXCEPT ![f] = other[f]]
         ELSE s
    ELSE s

\* BaseInterface::update, statement by statement.
update(s, other) ==
    LET s01 == CopyIf(s,   other, "name")
        s02 == CopyIf(s01, other, "description")
        s03 == CopyType(s02, other)
        s04 == CopyIf(s03, other, "state")
        s05 == CopyIf(s04, other, "mtu")
        s06 == CopyIf(s05, other, "min_mtu")
        s07 == CopyIf(s06, other, "max_mtu")
        s08 == CopyIf(s07, other, "mac_address")
        s09 == CopyIf(s08, other, "permanent_mac_address")
        s10 == CopyIf(s09, other, "controller")
        s11 == CopyIf(s10, other, "controller_type")
        s12 == CopyIf(s11, other, "accept_all_mac_addresses")
        s13 == CopyIf(s12, other, "ovsdb")
        s14 == CopyIf(s13, other, "ieee8021x")
        s15 == CopyIf(s14, other, "lldp")
        s16 == CopyIf(s15, other, "ethtool")
        s17 == CopyIf(s16, other, "mptcp")
        s18 == CopyIf(s17, other, "wait_ip")
        s19 == CopyIp(s18, other, "ipv4")
        s20 == CopyIp(s19, other, "ipv6")
        s21 == CopyIf(s20, other, "mptcp")
    IN  [s21 EXCEPT !.prop_list = PushProps(s21.prop_list, other.prop_list)]

\* ----------------------------------------------------------------------
\* Inputs of the overlay
\* ----------------------------------------------------------------------
IfaceA ==
    [name |-> "eth1", description |-> Some("uplink"),
     iface_type |-> "Ethernet", state |-> "Up",
     mtu |-> Some(1500), min_mtu |-> Some(68), max_mtu |-> Some(9000),
     mac_address |-> Some("00:00:5E:00:53:01"),
     permanent_mac_address |-> Some("00:00:5E:00:53:01"),
     controller |-> Some("br0"), controller_type |-> Some("LinuxBridge"),
     accept_all_mac_addresses |-> Some(FALSE),
     ovsdb |-> Some("external_ids-a"), ieee8021x |-> Some("identity-a"),
     lldp |-> Some("lldp-on"), ethtool |-> Some("pause-on"),
     mptcp |-> Some("subflow"), wait_ip |-> Some("Any"),
     ipv4 |-> Some([enabled |-> TRUE, dhcp |-> Some(TRUE),
                    prop_list |-> <<"enabled", "dhcp">>]),
     ipv6 |-> None,
     prop_list |-> <<>>]

IfaceB ==
    [name |-> "eth2", description |-> Some("backup"),
     iface_type |-> "Bond", state |-> "Down",
     mtu |-> Some(9000), min_mtu |-> Some(576), max_mtu |-> Some(65535),
     mac_address |-> Some("00:00:5E:00:53:02"),
     permanent_mac_address |-> Some("00:00:5E:00:53:02"),
     controller |-> Some("bond0"), controller_type |-> Some("Bond"),
     accept_all_mac_addresses |-> Some(TRUE),
     ovsdb |-> Some("external_ids-b"), ieee8021x |-> Some("identity-b"),
     lldp |-> Some("lldp-off"), ethtool |-> Some("pause-off"),
     mptcp |-> Some("signal"), wait_ip |-> Some("Ipv4"),
     ipv4 |-> Some([enabled |-> FALSE, dhcp |-> None,
                    prop_list |-> <<"dhcp">>]),
     ipv6 |-> Some([enabled |-> TRUE, dhcp |-> Some(FALSE),
                    prop_list |-> <<"enabled">>]),
     prop_list |-> <<>>]

\* BaseInterface::default()-like: every Option cleared, type Unknown.
IfaceNull ==
    [name |-> "", description |-> None,
     iface_type |-> "Unknown", state |-> "Up",
     mtu |-> None, min_mtu |-> None, max_mtu |-> None,
     mac_address |-> None, permanent_mac_address |-> None,
     controller |-> None, controller_type |-> None,
     accept_all_mac_addresses |-> None,
     ovsdb |-> None, ieee8021x |-> None, lldp |-> None, ethtool |-> None,
     mptcp |-> None, wait_ip |-> None,
     ipv4 |-> None, ipv6 |-> None,
     prop_list |-> <<>>]

\* Touched lists of an overlay input: nothing, each attribute alone, and
\* some lists of several attributes.
PropLists ==
    {<<>>} \cup {<<a>> : a \in AllAttrs}
    \cup {<<"iface_type", "ipv4">>, <<"mtu", "name">>, <<"ipv4", "ipv6">>,
          <<"name", "mptcp", "state">>}

Others ==
    {[b EXCEPT !.prop_list = pl] : b \in {IfaceB, IfaceNull}, pl \in PropLists}

Selves ==
    {IfaceA, [IfaceA EXCEPT !.prop_list = <<"name", "mtu">>],
     [IfaceNull EXCEPT !.prop_list = <<"state">>]}

MaxCalls == 2

\* ----------------------------------------------------------------------
\* Specification of the overlay: a chain of update calls on one interface
\* ----------------------------------------------------------------------
RouteIdle ==
    /\ rpc = "off" /\ np_route = None /\ entries = <<>>

GetIdle ==
    /\ gpc = "off" /\ running_config_only = FALSE /\ kernel = <<>>
    /\ proto_idx = 0 /\ np_routes = <<>> /\ warned = {} /\ queried = <<>>
    /\ ret = [running |-> None, config |-> None]
    /\ origin = [running |-> <<>>, config |-> <<>>]

BaseIdle == self = IfaceNull /\ calls = <<>>

GenIdle ==
    /\ gen_pc = "off" /\ changed_routes = <<>> /\ gen_ret = <<>>
    /\ gen_result = None /\ last_conf = None

ApplyIdle ==
    /\ apc = "off" /\ merged_state = None /\ nm_plan = None
    /\ oplog = <<>> /\ apply_result = None

RuleIdle ==
    /\ rr_pc = "off" /\ rr_in = None /\ rr_mid = None /\ rr_out = None

AcIdle ==
    /\ ac_pc = "off" /\ ac_backend = None /\ nm_conn_obj_path = None
    /\ ac_result = None

DfIdle ==
    /\ df_pc = "off" /\ df_args = None /\ df_ret = <<>>

DelIdle ==
    /\ del_pc = "off" /\ del_args = None /\ stored_conns = <<>>
    /\ uuids_to_delete = {} /\ del_log = <<>> /\ del_result = None

Init ==
    /\ self \in Selves
    /\ calls = <<>>
    /\ RouteIdle
    /\ GetIdle
    /\ GenIdle
    /\ ApplyIdle
    /\ RuleIdle
    /\ AcIdle
    /\ DfIdle
    /\ DelIdle

Update(other) ==
    /\ Len(calls) < MaxCalls
    /\ self' = update(self, other)
    /\ calls' = Append(calls, [before |-> self, other |-> other])
    /\ UNCHANGED <<convVars, getVars, genVars, applyVars, ruleVars, acVars, dfVars,
            delVars>>

Next == \E other \in Others : Update(other)

Spec == Init /\ [][Next]_vars

\* ----------------------------------------------------------------------
\* Properties of BaseInterface::update
\* ----------------------------------------------------------------------
Called == Len(calls) > 0

LastCall == calls[Len(calls)]

Touches(o, a) == Contains(o.prop_list, a)

\* C1: every scalar attribute named in other.prop_list holds other's value
\* after update, also when that value is None.
C1_ScalarCopied ==
    Called =>
        \A a \in ScalarAttrs :
            Touches(LastCall.other, a) => self[a] = LastCall.other[a]

\* C1 witness: an update whose other touched a scalar attribute with None
\* while self held a value.
C1_Witness ==
    /\ Called
    /\ \E a \in ScalarAttrs \ {"name", "state"} :
        /\ Touches(LastCall.other, a)
        /\ LastCall.other[a] = None
        /\ LastCall.before[a] # None
        /\ self[a] = None

\* C2: an attribute not named in other.prop_list keeps the value it had
\* before update.
C2_UntouchedKept ==
    Called =>
        \A a \in AllAttrs :
            ~Touches(LastCall.other, a) => self[a] = LastCall.before[a]

\* C2 witness: an update that touched something, with an untouched
\* attribute on which self and other differ.
C2_Witness ==
    /\ Called
    /\ LastCall.other.prop_list # <<>>
    /\ \E a \in AllAttrs :
        /\ ~Touches(LastCall.other, a)
        /\ LastCall.other[a] # LastCall.before[a]
        /\ self[a] = LastCall.before[a]

\* C3: an Unknown type in other never replaces self's type; a touched type
\* other than Unknown does.
C3_UnknownNeverOverwrites ==
    Called =>
        /\ LastCall.other.iface_type = "Unknown"
              => self.iface_type = LastCall.before.iface_type
        /\ (LastCall.other.iface_type # "Unknown"
            /\ Touches(LastCall.other, "iface_type"))
              => self.iface_type = LastCall.other.iface_type

\* C3 witness: other touched iface_type with Unknown while self had a
\* known type.
C3_Witness ==
    /\ Called
    /\ Touches(LastCall.other, "iface_type")
    /\ LastCall.other.iface_type = "Unknown"
    /\ LastCall.before.iface_type # "Unknown"
    /\ self.iface_type = LastCall.before.iface_type

RECURSIVE TouchedByAll(_)
TouchedByAll(cs) ==
    IF cs = <<>> THEN {}
    ELSE Range(Head(cs).other.prop_list) \cup TouchedByAll(Tail(cs))

\* C4: after update, self.prop_list holds exactly the names of its previous
\* list and of other.prop_list, the previous names as often as before and
\* the new names once; over a chain of updates it holds the names of the
\* first list and of every other.prop_list.
C4_PropListUnion ==
    Called =>
        /\ Range(self.prop_list) =
              Range(LastCall.before.prop_list)
              \cup Range(LastCall.other.prop_list)
        /\ \A n \in Range(LastCall.before.prop_list) :
              Count(self.prop_list, n) = Count(LastCall.before.prop_list, n)
        /\ \A n \in Range(self.prop_list) \ Range(LastCall.before.prop_list) :
              Count(self.prop_list, n) = 1
        /\ Range(self.prop_list) =
              Range(calls[1].before.prop_list) \cup TouchedByAll(calls)

\* C4 witness: the second update of a chain, whose other names one
\* attribute self already lists and one it does not.
C4_Witness ==
    /\ Len(calls) = 2
    /\ \E n \in Range(LastCall.other.prop_list) :
          n \in Range(LastCall.before.prop_list)
    /\ \E n \in Range(LastCall.other.prop_list) :
          n \notin Range(LastCall.before.prop_list)

\* C5: applying update with the same other a second time changes nothing.
C5_Idempotent ==
    Called => update(self, LastCall.other) = self

\* C5 witness: an update that changed attributes and added names to the
\* touched list of self.
C5_Witness ==
    /\ Called
    /\ self.prop_list # LastCall.before.prop_list
    /\ self.iface_type # LastCall.before.iface_type
    /\ IsSome(LastCall.before.ipv4) /\ self.ipv4 # LastCall.before.ipv4

Disjoint(y, z) == Range(y.prop_list) \cap Range(z.prop_list) = {}

\* Same attributes and the same touched names, in any order.
SameOverlay(a, b) ==
    /\ \A f \in AllAttrs : a[f] = b[f]
    /\ Range(a.prop_list) = Range(b.prop_list)

\* C6 as stated: updates with disjoint touched lists give equal
\* BaseInterfaces (prop_list vector included) in either order.
C6_OrderIndependentExact ==
    (Len(calls) = 2 /\ Disjoint(calls[1].other, calls[2].other)) =>
        self = update(update(calls[1].before, calls[2].other), calls[1].other)

\* C6 amended: updates with disjoint touched lists give, in either order,
\* the same value of every attribute and the same set of touched names
\* (the order of the names in prop_list may differ).
C6_OrderIndependent ==
    (Len(calls) = 2 /\ Disjoint(calls[1].other, calls[2].other)) =>
        SameOverlay(self, update(update(calls[1].before, calls[2].other),
                                 calls[1].other))

\* C6 witness: two updates with disjoint, non-empty touched lists, each of
\* which changed an attribute.
C6_Witness ==
    /\ Len(calls) = 2
    /\ Disjoint(calls[1].other, calls[2].other)
    /\ calls[1].other.prop_list # <<>>
    /\ calls[2].other.prop_list # <<>>
    /\ \E f \in AllAttrs : calls[1].before[f] # calls[2].before[f]
    /\ \E f \in AllAttrs : calls[2].before[f] # self[f]

IpRule(before, other, after) ==
    IF IsSome(before) /\ IsSome(other)
    THEN after = Some(IpUpdate(Unwrap(before), Unwrap(other)))
    ELSE after = other

SUPPORTED_ROUTE_SCOPE == <<"Universe", "Link">>

SUPPORTED_ROUTE_PROTOCOL ==
    <<"Boot", "Static", "Ra", "Dhcp", "Mrouted", "KeepAlived", "Babel">>

SUPPORTED_STATIC_ROUTE_PROTOCOL == <<"Boot", "Static">>

IPV4_DEFAULT_GATEWAY == "0.0.0.0/0"

IPV6_DEFAULT_GATEWAY == "::/0"

IPV4_EMPTY_NEXT_HOP_ADDRESS == "0.0.0.0"

IPV6_EMPTY_NEXT_HOP_ADDRESS == "::"

RTAX_CWND == 7

\* let route_type = [BlackHole, Unreachable, Prohibit];
SpecialRouteTypes == <<"BlackHole", "Unreachable", "Prohibit">>

\* RouteEntry::new(): every field unset.
RouteEntryNew ==
    [state |-> None, destination |-> None, next_hop_iface |-> None,
     next_hop_addr |-> None, source |-> None, metric |-> None,
     table_id |-> None, route_type |-> None, weight |-> None, cwnd |-> None]

\* x & (1 << bit) != 0
BitSet(x, bit) == (x \div (2 ^ bit)) % 2 = 1

\* np_route.lock.unwrap_or(0) & (1 << RTAX_CWND) != 0, then the cwnd choice
CwndOfUnlocked(r) == r.cwnd

CwndOf(r) ==
    LET cwnd_lock == BitSet(IF IsSome(r.lock) THEN Unwrap(r.lock) ELSE 0,
                            RTAX_CWND)
    IN  IF cwnd_lock THEN r.cwnd ELSE None

\* the `destination` match of np_routetype_to_nmstate
TypeDestinationSwapped(r) ==
    IF IsSome(r.dst) THEN r.dst
    ELSE IF r.address_family = "IPv4" THEN Some(IPV6_DEFAULT_GATEWAY)
    ELSE IF r.address_family = "IPv6" THEN Some(IPV4_DEFAULT_GATEWAY)
    ELSE None

TypeDestination(r) ==
    IF IsSome(r.dst) THEN r.dst
    ELSE IF r.address_family = "IPv4" THEN Some(IPV4_DEFAULT_GATEWAY)
    ELSE IF r.address_family = "IPv6" THEN Some(IPV6_DEFAULT_GATEWAY)
    ELSE None

np_routetype_to_nmstate(r) ==
    LET e1 == [RouteEntryNew EXCEPT !.destination = TypeDestination(r)]
        e2 == IF r.address_family = "IPv6"
              THEN [e1 EXCEPT !.next_hop_iface = r.oif] ELSE e1
        e3 == [e2 EXCEPT !.metric = r.metric, !.table_id = Some(r.table)]
        e4 == IF r.route_type = "BlackHole"
                 THEN [e3 EXCEPT !.route_type = Some("Blackhole")]
              ELSE IF r.route_type = "Unreachable"
                 THEN [e3 EXCEPT !.route_type = Some("Unreachable")]
              ELSE IF r.route_type = "Prohibit"
                 THEN [e3 EXCEPT !.route_type = Some("Prohibit")]
              ELSE e3
    IN  [e4 EXCEPT !.cwnd = CwndOf(r)]

\* the `destination` match of np_route_to_nmstate
Destination(r) ==
    IF IsSome(r.dst) THEN r.dst
    ELSE IF r.address_family = "IPv4" THEN Some(IPV4_DEFAULT_GATEWAY)
    ELSE IF r.address_family = "IPv6" THEN Some(IPV6_DEFAULT_GATEWAY)
    ELSE None

\* the `next_hop_addr` chain of np_route_to_nmstate
NextHopAddrGatewayFirst(r) ==
    IF IsSome(r.gateway) THEN r.gateway
    ELSE IF IsSome(r.via) THEN r.via
    ELSE IF r.address_family = "IPv4" THEN Some(IPV4_EMPTY_NEXT_HOP_ADDRESS)
    ELSE IF r.address_family = "IPv6" THEN Some(IPV6_EMPTY_NEXT_HOP_ADDRESS)
    ELSE None

NextHopAddr(r) ==
    IF IsSome(r.via) THEN r.via
    ELSE IF IsSome(r.gateway) THEN r.gateway
    ELSE IF r.address_family = "IPv4" THEN Some(IPV4_EMPTY_NEXT_HOP_ADDRESS)
    ELSE IF r.address_family = "IPv6" THEN Some(IPV6_EMPTY_NEXT_HOP_ADDRESS)
    ELSE None

np_route_to_nmstate(r) ==
    [RouteEntryNew EXCEPT
        !.destination = Destination(r),
        !.next_hop_iface = r.oif,
        !.next_hop_addr = NextHopAddr(r),
        !.source = r.prefered_src,
        !.metric = r.metric,
        !.table_id = Some(r.table),
        !.cwnd = CwndOf(r)]

is_multipath(r) ==
    IF IsSome(r.multipath) THEN Unwrap(r.multipath) # <<>> ELSE FALSE

\* one iteration of the loop of flat_multipath_route
FlatOne(r, mp_route) ==
    LET new_np_route == [r EXCEPT !.via = Some(mp_route.via),
                                  !.oif = Some(mp_route.iface)]
        route == np_route_to_nmstate(new_np_route)
    IN  IF r.address_family = "IPv4"
        THEN [route EXCEPT !.weight = Some(mp_route.weight)]
        ELSE route

flat_multipath_route_weighted(r) ==
    IF IsSome(r.multipath)
    THEN [i \in DOMAIN Unwrap(r.multipath) |->
            [FlatOne(r, Unwrap(r.multipath)[i])
                EXCEPT !.weight = Some(Unwrap(r.multipath)[i].weight)]]
    ELSE <<>>

flat_multipath_route(r) ==
    IF IsSome(r.multipath)
    THEN [i \in DOMAIN Unwrap(r.multipath) |->
            FlatOne(r, Unwrap(r.multipath)[i])]
    ELSE <<>>

\* ----------------------------------------------------------------------
\* Inputs of the conversions: kernel routes as nispor reports them
\* ----------------------------------------------------------------------
MaxHops == 2

Hops ==
    {[via |-> "192.168.1.1", iface |-> "eth0", weight |-> 1],
     [via |-> "192.168.2.1", iface |-> "eth1", weight |-> 2]}

HopLists ==
    UNION {[1..n -> Hops] : n \in 0..MaxHops}

NpRoutes ==
    [dst : {None, Some("198.51.100.0/24")},
     address_family : {"IPv4", "IPv6", "Other"},
     oif : {None, Some("eth2")},
     via : {None, Some("192.0.2.1")},
     gateway : {None, Some("192.0.2.254")},
     prefered_src : {None, Some("192.0.2.10")},
     metric : {None, Some(150)},
     table : {254, 100},
     route_type : {"Unicast", "BlackHole", "Unreachable", "Prohibit"},
     lock : {None, Some(127), Some(128), Some(384)},
     cwnd : {None, Some(10)},
     multipath : {None} \cup {Some(h) : h \in HopLists},
     scope : {"Universe"},
     protocol : {"Static"}]

\* ----------------------------------------------------------------------
\* Specification of the conversions: one kernel route, one conversion
\* ----------------------------------------------------------------------
ConvInit ==
    /\ BaseIdle
    /\ GetIdle
    /\ GenIdle
    /\ ApplyIdle
    /\ RuleIdle
    /\ AcIdle
    /\ DfIdle
    /\ DelIdle
    /\ rpc = "input"
    /\ np_route \in NpRoutes
    /\ entries = <<>>

ConvRouteType ==
    /\ rpc = "input"
    /\ rpc' = "np_routetype_to_nmstate"
    /\ entries' = <<np_routetype_to_nmstate(np_route)>>
    /\ UNCHANGED <<np_route, baseVars, getVars, genVars, applyVars, ruleVars,
            acVars, dfVars, delVars>>

ConvRoute ==
    /\ rpc = "input"
    /\ rpc' = "np_route_to_nmstate"
    /\ entries' = <<np_route_to_nmstate(np_route)>>
    /\ UNCHANGED <<np_route, baseVars, getVars, genVars, applyVars, ruleVars,
            acVars, dfVars, delVars>>

ConvFlat ==
    /\ rpc = "input"
    /\ rpc' = "flat_multipath_route"
    /\ entries' = flat_multipath_route(np_route)
    /\ UNCHANGED <<np_route, baseVars, getVars, genVars, applyVars, ruleVars,
            acVars, dfVars, delVars>>

ConvNext == ConvRouteType \/ ConvRoute \/ ConvFlat

SpecConv == ConvInit /\ [][ConvNext]_vars

\* C8: a converted route without kernel destination gets "0.0.0.0/0" when
\* IPv4 and "::/0" when IPv6, and one with a destination keeps it, in
\* np_route_to_nmstate and in np_routetype_to_nmstate.
C8_DefaultDestination ==
    rpc \in {"np_route_to_nmstate", "np_routetype_to_nmstate"} =>
        /\ Len(entries) = 1
        /\ IsSome(np_route.dst) => entries[1].destination = np_route.dst
        /\ (np_route.dst = None /\ np_route.address_family = "IPv4")
              => entries[1].destination = Some("0.0.0.0/0")
        /\ (np_route.dst = None /\ np_route.address_family = "IPv6")
              => entries[1].destination = Some("::/0")

\* C8 witness: a blackhole route of family IPv6 without destination,
\* converted by np_routetype_to_nmstate.
C8_Witness ==
    /\ rpc = "np_routetype_to_nmstate"
    /\ np_route.dst = None
    /\ np_route.address_family = "IPv6"
    /\ np_route.route_type = "BlackHole"
    /\ entries[1].destination = Some("::/0")

\* C10: flattening a route with N > 0 next hops gives N entries in hop
\* order, entry i with hop i's iface and via, every entry with the route's
\* destination (the family default when the kernel gave none), table and
\* metric, and with hop i's weight when IPv4 and no weight otherwise.
C10_MultipathFlattened ==
    (rpc = "flat_multipath_route" /\ is_multipath(np_route)) =>
        LET hops == Unwrap(np_route.multipath) IN
        /\ Len(entries) = Len(hops)
        /\ \A i \in DOMAIN hops :
            /\ entries[i].next_hop_iface = Some(hops[i].iface)
            /\ entries[i].next_hop_addr = Some(hops[i].via)
            /\ entries[i].destination =
                  (IF IsSome(np_route.dst) THEN np_route.dst
                   ELSE IF np_route.address_family = "IPv4"
                        THEN Some("0.0.0.0/0")
                   ELSE IF np_route.address_family = "IPv6"
                        THEN Some("::/0")
                   ELSE None)
            /\ entries[i].table_id = Some(np_route.table)
            /\ entries[i].metric = np_route.metric
            /\ entries[i].weight =
                  (IF np_route.address_family = "IPv4"
                   THEN Some(hops[i].weight) ELSE None)

\* C10 witness: an IPv6 route with two different next hops, with its own
\* via and oif, flattened into two entries.
C10_Witness ==
    /\ rpc = "flat_multipath_route"
    /\ np_route.address_family = "IPv6"
    /\ IsSome(np_route.multipath)
    /\ Len(Unwrap(np_route.multipath)) = 2
    /\ Unwrap(np_route.multipath)[1] # Unwrap(np_route.multipath)[2]
    /\ IsSome(np_route.via) /\ IsSome(np_route.oif)
    /\ IsSome(np_route.metric)
    /\ Len(entries) = 2
    /\ entries[1].next_hop_iface # entries[2].next_hop_iface

\* ----------------------------------------------------------------------
\* get_routes (nispor/route.rs)
\* ----------------------------------------------------------------------
MaxKernelRoutes == 2

BaseRoute ==
    [dst |-> Some("198.51.100.0/24"), address_family |-> "IPv4",
     oif |-> Some("eth2"), via |-> Some("192.0.2.1"), gateway |-> None,
     prefered_src |-> None, metric |-> Some(150), table |-> 254,
     route_type |-> "Unicast", lock |-> None, cwnd |-> None,
     multipath |-> None, scope |-> "Universe", protocol |-> "Static"]

\* Routes the kernel may hold: static, boot and learned ones, of supported
\* and unsupported scope, unicast with and without oif, blackhole,
\* multipath, and routes without destination of each family.
KernelSamples ==
    {BaseRoute,
     [BaseRoute EXCEPT !.protocol = "Dhcp", !.dst = None],
     [BaseRoute EXCEPT !.protocol = "Boot", !.scope = "Link", !.via = None],
     [BaseRoute EXCEPT !.scope = "Host"],
     [BaseRoute EXCEPT !.route_type = "BlackHole", !.oif = None,
                       !.via = None],
     [BaseRoute EXCEPT !.oif = None, !.via = None,
                       !.multipath = Some(<<[via |-> "192.168.1.1",
                                             iface |-> "eth0", weight |-> 1],
                                            [via |-> "192.168.2.1",
                                             iface |-> "eth1",
                                             weight |-> 2]>>)],
     [BaseRoute EXCEPT !.dst = None, !.address_family = "Other",
                       !.via = None],
     [BaseRoute EXCEPT !.dst = None, !.address_family = "Other",
                       !.route_type = "Prohibit", !.oif = None, !.via = None],
     [BaseRoute EXCEPT !.oif = None],
     [BaseRoute EXCEPT !.protocol = "Ra", !.address_family = "IPv6",
                       !.dst = None, !.via = Some("fe80::1")],
     [BaseRoute EXCEPT !.protocol = "Kernel", !.scope = "Link", !.via = None]}

Kernels == UNION {[1..n -> KernelSamples] : n \in 0..MaxKernelRoutes}

\* let protocols = if running_config_only { static } else { all };
ProtocolsAll(rco) == SUPPORTED_ROUTE_PROTOCOL

Protocols(rco) ==
    IF rco THEN SUPPORTED_STATIC_ROUTE_PROTOCOL ELSE SUPPORTED_ROUTE_PROTOCOL

\* what NetState::retrieve_with_filter_async returns for one protocol
RoutesOfProtocol(k, p) == SelectSeq(k, LAMBDA r : r.protocol = p)

\* the body of the two `for np_route in np_routes.iter().filter(..)` loops:
\* the entries one route contributes to a view
EntriesOf(r) ==
    IF is_multipath(r) THEN flat_multipath_route(r)
    ELSE IF Contains(SpecialRouteTypes, r.route_type)
         THEN <<np_routetype_to_nmstate(r)>>
    ELSE IF IsSome(r.oif) THEN <<np_route_to_nmstate(r)>>
    ELSE <<>>

RECURSIVE ViewOf(_)
ViewOf(routes) ==
    IF routes = <<>> THEN <<>>
    ELSE EntriesOf(Head(routes)) \o ViewOf(Tail(routes))

\* the kernel route behind each entry of ViewOf(routes)
RECURSIVE OriginOf(_)
OriginOf(routes) ==
    IF routes = <<>> THEN <<>>
    ELSE [i \in DOMAIN EntriesOf(Head(routes)) |-> Head(routes)]
         \o OriginOf(Tail(routes))

RunningFilterAnyScope(r) == TRUE

RunningFilter(r) == Contains(SUPPORTED_ROUTE_SCOPE, r.scope)

ConfigFilterAnyProtocol(r) == Contains(SUPPORTED_ROUTE_SCOPE, r.scope)

ConfigFilterAnyScope(r) ==
    Contains(SUPPORTED_STATIC_ROUTE_PROTOCOL, r.protocol)

ConfigFilter(r) ==
    /\ Contains(SUPPORTED_ROUTE_SCOPE, r.scope)
    /\ Contains(SUPPORTED_STATIC_ROUTE_PROTOCOL, r.protocol)

GetInit ==
    /\ BaseIdle
    /\ RouteIdle
    /\ GenIdle
    /\ ApplyIdle
    /\ RuleIdle
    /\ AcIdle
    /\ DfIdle
    /\ DelIdle
    /\ gpc = "retrieve"
    /\ running_config_only \in BOOLEAN
    /\ kernel \in Kernels
    /\ proto_idx = 0
    /\ np_routes = <<>>
    /\ warned = {}
    /\ queried = <<>>
    /\ ret = [running |-> None, config |-> None]
    /\ origin = [running |-> <<>>, config |-> <<>>]

AfterRetrieve(idx) ==
    IF idx < Len(Protocols(running_config_only)) THEN "retrieve"
    ELSE IF running_config_only THEN "config" ELSE "running"

\* one iteration of `for protocol in protocols`, the Ok(np_state) arm
RetrieveOk ==
    /\ gpc = "retrieve"
    /\ LET protocol == Protocols(running_config_only)[proto_idx + 1] IN
        /\ np_routes' = np_routes \o RoutesOfProtocol(kernel, protocol)
        /\ queried' = Append(queried, protocol)
    /\ proto_idx' = proto_idx + 1
    /\ gpc' = AfterRetrieve(proto_idx + 1)
    /\ UNCHANGED <<running_config_only, kernel, warned, ret, origin,
                   baseVars, convVars, genVars, applyVars, ruleVars, acVars,
                   dfVars, delVars>>

\* one iteration of `for protocol in protocols`, the Err(e) arm
RetrieveErrAbort ==
    /\ gpc = "retrieve"
    /\ warned' = warned \cup {Protocols(running_config_only)[proto_idx + 1]}
    /\ queried' = Append(queried,
                         Protocols(running_config_only)[proto_idx + 1])
    /\ gpc' = "done"
    /\ UNCHANGED <<running_config_only, kernel, proto_idx, np_routes, ret,
                   origin, baseVars, convVars, genVars, applyVars, ruleVars,
                   acVars, dfVars, delVars>>

RetrieveErr ==
    /\ gpc = "retrieve"
    /\ warned' = warned \cup {Protocols(running_config_only)[proto_idx + 1]}
    /\ queried' = Append(queried,
                         Protocols(running_config_only)[proto_idx + 1])
    /\ proto_idx' = proto_idx + 1
    /\ gpc' = AfterRetrieve(proto_idx + 1)
    /\ UNCHANGED <<running_config_only, kernel, np_routes, ret, origin,
                   baseVars, convVars, genVars, applyVars, ruleVars, acVars,
                   dfVars, delVars>>

\* if !running_config_only { ...; ret.running = Some(running_routes); }
BuildRunning ==
    /\ gpc = "running"
    /\ LET kept == SelectSeq(np_routes, RunningFilter) IN
        /\ ret' = [ret EXCEPT !.running = Some(ViewOf(kept))]
        /\ origin' = [origin EXCEPT !.running = OriginOf(kept)]
    /\ gpc' = "config"
    /\ UNCHANGED <<running_config_only, kernel, proto_idx, np_routes, warned,
                   queried, baseVars, convVars, genVars, applyVars, ruleVars,
                   acVars, dfVars, delVars>>

\* ...; ret.config = Some(config_routes); ret
BuildConfig ==
    /\ gpc = "config"
    /\ LET kept == SelectSeq(np_routes, ConfigFilter) IN
        /\ ret' = [ret EXCEPT !.config = Some(ViewOf(kept))]
        /\ origin' = [origin EXCEPT !.config = OriginOf(kept)]
    /\ gpc' = "done"
    /\ UNCHANGED <<running_config_only, kernel, proto_idx, np_routes, warned,
                   queried, baseVars, convVars, genVars, applyVars, ruleVars,
                   acVars, dfVars, delVars>>

GetNext == RetrieveOk \/ RetrieveErr \/ BuildRunning \/ BuildConfig

SpecGet == GetInit /\ [][GetNext]_vars

NoDestUnknownFamily(r) ==
    r.dst = None /\ r.address_family \notin {"IPv4", "IPv6"}

\* C9: a kernel route without destination and of unrecognized address
\* family is behind no entry of the views get_routes returns.
C9_UnknownFamilyDropped ==
    gpc = "done" =>
        /\ \A i \in DOMAIN origin.running :
              ~NoDestUnknownFamily(origin.running[i])
        /\ \A i \in DOMAIN origin.config :
              ~NoDestUnknownFamily(origin.config[i])

\* C11: the entry np_route_to_nmstate makes takes its next-hop address from
\* via, else from gateway, else "0.0.0.0" (IPv4) or "::" (IPv6); for IPv4
\* and IPv6 routes it is never unset.
C11_NextHopDefaulted ==
    rpc = "np_route_to_nmstate" =>
        /\ IsSome(np_route.via) => entries[1].next_hop_addr = np_route.via
        /\ (np_route.via = None /\ IsSome(np_route.gateway))
              => entries[1].next_hop_addr = np_route.gateway
        /\ (np_route.via = None /\ np_route.gateway = None
            /\ np_route.address_family = "IPv4")
              => entries[1].next_hop_addr = Some("0.0.0.0")
        /\ (np_route.via = None /\ np_route.gateway = None
            /\ np_route.address_family = "IPv6")
              => entries[1].next_hop_addr = Some("::")
        /\ np_route.address_family \in {"IPv4", "IPv6"}
              => IsSome(entries[1].next_hop_addr)

\* C11 witness: an IPv6 route without via and gateway converted to an entry
\* with next-hop address "::".
C11_Witness ==
    /\ rpc = "np_route_to_nmstate"
    /\ np_route.via = None /\ np_route.gateway = None
    /\ np_route.address_family = "IPv6"
    /\ entries[1].next_hop_addr = Some("::")

LockBit7(r) == IsSome(r.lock) /\ (Unwrap(r.lock) \div 128) % 2 = 1

\* C12: the converted entry carries the kernel cwnd when bit 0x80 of the
\* lock field is set, and no cwnd when the lock field is absent or the bit
\* is clear, in np_route_to_nmstate and in np_routetype_to_nmstate.
C12_CwndGated ==
    rpc \in {"np_route_to_nmstate", "np_routetype_to_nmstate"} =>
        /\ LockBit7(np_route) => entries[1].cwnd = np_route.cwnd
        /\ ~LockBit7(np_route) => entries[1].cwnd = None
        /\ IsSome(np_route.cwnd) =>
              (entries[1].cwnd = np_route.cwnd <=> LockBit7(np_route))

\* C12 witness: a blackhole route with cwnd 10 and lock 127 (bit 0x80
\* clear, every lower bit set) converted to an entry without cwnd.
C12_Witness ==
    /\ rpc = "np_routetype_to_nmstate"
    /\ np_route.route_type = "BlackHole"
    /\ np_route.cwnd = Some(10)
    /\ np_route.lock = Some(127)
    /\ entries[1].cwnd = None

\* C13: get_routes(true) queries the backend for Boot and Static only and
\* returns no running view and a config view; get_routes(false) queries
\* Boot, Static, Ra, Dhcp, Mrouted, KeepAlived and Babel and returns both
\* views.
C13_RunningConfigOnly ==
    gpc = "done" =>
        IF running_config_only
        THEN /\ queried = <<"Boot", "Static">>
             /\ ret.running = None
             /\ IsSome(ret.config)
        ELSE /\ queried = <<"Boot", "Static", "Ra", "Dhcp", "Mrouted",
                            "KeepAlived", "Babel">>
             /\ IsSome(ret.running)
             /\ IsSome(ret.config)

\* C13 witness: get_routes(true) returned, with a learned (Dhcp) route and
\* a static route in the kernel, and only the static one collected.
C13_Witness ==
    /\ gpc = "done"
    /\ running_config_only
    /\ \E i \in DOMAIN kernel : kernel[i].protocol = "Dhcp"
    /\ Len(np_routes) = 1
    /\ ret.running = None
    /\ IsSome(ret.config) /\ Unwrap(ret.config) # <<>>

\* C14: in both modes every entry of the config view is made from a kernel
\* route of protocol Boot or Static.
C14_ConfigOnlyStatic ==
    gpc = "done" =>
        \A i \in DOMAIN origin.config :
            origin.config[i].protocol \in {"Boot", "Static"}

\* C14 witness: a full query returned whose running view holds an entry
\* made from a Dhcp route and whose config view holds an entry too.
C14_Witness ==
    /\ gpc = "done"
    /\ ~running_config_only
    /\ \E i \in DOMAIN origin.running : origin.running[i].protocol = "Dhcp"
    /\ origin.config # <<>>
    /\ Len(Unwrap(ret.config)) < Len(Unwrap(ret.running))

\* C15: every entry of the running view and of the config view is made
\* from a kernel route of scope Universe or Link.
C15_ScopeFiltered ==
    gpc = "done" =>
        /\ \A i \in DOMAIN origin.running :
              origin.running[i].scope \in {"Universe", "Link"}
        /\ \A i \in DOMAIN origin.config :
              origin.config[i].scope \in {"Universe", "Link"}
        /\ Len(origin.config) = Len(Unwrap(ret.config))
        /\ IsSome(ret.running)
              => Len(origin.running) = Len(Unwrap(ret.running))

\* C15 witness: a full query returned that had collected a route of scope
\* Host and a route of scope Link, with one entry in each view.
C15_Witness ==
    /\ gpc = "done"
    /\ ~running_config_only
    /\ \E i \in DOMAIN np_routes : np_routes[i].scope = "Host"
    /\ \E i \in DOMAIN np_routes : np_routes[i].scope = "Link"
    /\ Len(Unwrap(ret.running)) = 1
    /\ Len(Unwrap(ret.config)) = 1

RECURSIVE RoutesOfSucceeded(_)
RoutesOfSucceeded(protos) ==
    IF protos = <<>> THEN <<>>
    ELSE (IF Head(protos) \in warned THEN <<>>
          ELSE SelectSeq(kernel, LAMBDA r : r.protocol = Head(protos)))
         \o RoutesOfSucceeded(Tail(protos))

\* C19: whichever per-protocol queries fail, get_routes goes on to its end
\* and returns a result, and the routes collected are all the routes of
\* every protocol whose query succeeded.
C19_BestEffortCollection ==
    /\ gpc # "done" => ENABLED GetNext
    /\ gpc \in {"running", "config", "done"} =>
          np_routes = RoutesOfSucceeded(queried)
    /\ gpc = "done" => IsSome(ret.config)

\* C19 witness: get_routes returned after the Boot query failed while the
\* kernel held a Boot route, with the routes of a later protocol collected
\* and converted.
C19_Witness ==
    /\ gpc = "done"
    /\ "Boot" \in warned
    /\ \E i \in DOMAIN kernel : kernel[i].protocol = "Boot"
    /\ np_routes # <<>>
    /\ Unwrap(ret.config) # <<>>

\* ----------------------------------------------------------------------
\* Outbound route translation (nispor/route.rs)
\* ----------------------------------------------------------------------
U8_MAX == 255

\* Integers wider than the checker's are pairs of 16-bit limbs:
\* Wide(hi, lo) is hi * 2^16 + lo with lo in 0..2^16-1.
LIMB == 65536

Wide(hi, lo) == [hi |-> hi, lo |-> lo]

\* u32::try_from(m).is_ok() for an i64 m
FitsU32(m) == m.hi >= 0 /\ m.hi < LIMB

\* Result<T, NmstateError>
Ok(v) == [val |-> Some(v), err |-> None]

Err(kind, msg) == [val |-> None, err |-> Some([kind |-> kind, msg |-> msg])]

IsOk(res) == IsSome(res.val)

\* nispor::RouteConf::default()
RouteConfDefault ==
    [remove |-> FALSE, dst |-> "", oif |-> None, via |-> None,
     metric |-> None, table |-> None]

\* RouteEntry::is_absent()
is_absent(rt) == rt.state = Some("Absent")

\* the metric carried over without the conversion
MetricOfUnchecked(metric) == metric

\* nmstate_rt.metric.and_then(|m| u32::try_from(m).ok())
MetricOf(metric) ==
    IF IsSome(metric) /\ FitsU32(Unwrap(metric)) THEN metric ELSE None

\* if let Some(table_id) = nmstate_rt.table_id { if table_id > u8::MAX ...
\* the error of the table id check, if any
TableErrorNever(rt) == None

TableError(rt) ==
    IF IsSome(rt.table_id) /\ Unwrap(rt.table_id) > U8_MAX
    THEN Some([kind |-> "NotImplementedError", msg |-> "route table ID"])
    ELSE None

\* ret.table = Some(table_id as u8)
TableOf(rt) ==
    IF IsSome(rt.table_id) THEN Some(Unwrap(rt.table_id) % (U8_MAX + 1))
    ELSE None

\* the weight, route_type and cwnd checks, in the order of the code
UnsupportedNever(rt) == None

Unsupported(rt) ==
    IF IsSome(rt.weight)
    THEN Some([kind |-> "NotImplementedError", msg |-> "route weight"])
    ELSE IF IsSome(rt.route_type)
    THEN Some([kind |-> "NotImplementedError", msg |-> "route type"])
    ELSE IF IsSome(rt.cwnd)
    THEN Some([kind |-> "NotImplementedError",
               msg |-> "route congestion window"])
    ELSE None

nmstate_to_nispor_route_conf(rt) ==
    LET ret0 == [RouteConfDefault EXCEPT
                    !.remove = is_absent(rt),
                    !.dst = IF IsSome(rt.destination)
                            THEN Unwrap(rt.destination) ELSE "",
                    !.oif = rt.next_hop_iface,
                    !.via = rt.next_hop_addr,
                    !.metric = MetricOf(rt.metric)]
    IN  IF IsSome(TableError(rt))
        THEN [val |-> None, err |-> TableError(rt)]
        ELSE LET ret1 == [ret0 EXCEPT !.table = TableOf(rt)] IN
             IF IsSome(Unsupported(rt))
             THEN [val |-> None, err |-> Unsupported(rt)]
             ELSE Ok(ret1)

\* ----------------------------------------------------------------------
\* Inputs of the translation: desired route entries
\* ----------------------------------------------------------------------
MaxChangedRoutes == 2

RouteEntries ==
    [state : {None, Some("Absent")},
     destination : {None, Some("198.51.100.0/24")},
     next_hop_iface : {None, Some("eth1")},
     next_hop_addr : {None, Some("192.0.2.1")},
     source : {None},
     metric : {None, Some(Wide(0 - 1, LIMB - 1)), Some(Wide(0, 0)),
               Some(Wide(0, 150)), Some(Wide(LIMB - 1, LIMB - 1)),
               Some(Wide(LIMB, 0))},
     table_id : {None, Some(0), Some(254), Some(U8_MAX), Some(U8_MAX + 1),
                 Some(300)},
     route_type : {None, Some("Blackhole"), Some("Prohibit")},
     weight : {None, Some(0), Some(1)},
     cwnd : {None, Some(10)}]

GoodEntry ==
    [state |-> None, destination |-> Some("198.51.100.0/24"),
     next_hop_iface |-> Some("eth1"), next_hop_addr |-> Some("192.0.2.1"),
     source |-> None, metric |-> Some(Wide(0, 150)),
     table_id |-> Some(254),
     route_type |-> None, weight |-> None, cwnd |-> None]

\* Entries of a plan of several routes: translatable ones and one failing
\* for each reason.
EntrySamples ==
    {GoodEntry,
     [GoodEntry EXCEPT !.state = Some("Absent"), !.metric = None],
     [GoodEntry EXCEPT !.destination = Some("203.0.113.0/24"),
                       !.table_id = None],
     [GoodEntry EXCEPT !.table_id = Some(300)],
     [GoodEntry EXCEPT !.weight = Some(1)],
     [GoodEntry EXCEPT !.route_type = Some("Blackhole"),
                       !.next_hop_iface = None, !.next_hop_addr = None],
     [GoodEntry EXCEPT !.cwnd = Some(10)]}

ChangedRouteLists ==
    {<<rt>> : rt \in RouteEntries}
    \cup UNION {[1..n -> EntrySamples] : n \in 0..MaxChangedRoutes}

\* ----------------------------------------------------------------------
\* gen_nispor_route_confs
\* ----------------------------------------------------------------------
GenInit ==
    /\ BaseIdle
    /\ RouteIdle
    /\ GetIdle
    /\ ApplyIdle
    /\ RuleIdle
    /\ AcIdle
    /\ DfIdle
    /\ DelIdle
    /\ gen_pc = "loop"
    /\ changed_routes \in ChangedRouteLists
    /\ gen_ret = <<>>
    /\ gen_result = None
    /\ last_conf = None

NextChanged == changed_routes[Len(gen_ret) + 1]

\* ret.push(nmstate_to_nispor_route_conf(nmstate_rt)?), the Ok case
GenPush ==
    /\ gen_pc = "loop"
    /\ Len(gen_ret) < Len(changed_routes)
    /\ LET res == nmstate_to_nispor_route_conf(NextChanged) IN
        /\ IsOk(res)
        /\ gen_ret' = Append(gen_ret, Unwrap(res.val))
        /\ last_conf' = Some([rt |-> NextChanged, res |-> res])
    /\ UNCHANGED <<gen_pc, changed_routes, gen_result,
                   baseVars, convVars, getVars, applyVars, ruleVars, acVars,
                   dfVars, delVars>>

\* ret.push(nmstate_to_nispor_route_conf(nmstate_rt)?), the `?` return
GenFailSkip ==
    /\ gen_pc = "loop"
    /\ Len(gen_ret) < Len(changed_routes)
    /\ LET res == nmstate_to_nispor_route_conf(NextChanged) IN
        /\ ~IsOk(res)
        /\ last_conf' = Some([rt |-> NextChanged, res |-> res])
    /\ gen_pc' = "done"
    /\ gen_result' = [val |-> Some(gen_ret), err |-> None]
    /\ UNCHANGED <<changed_routes, gen_ret,
                   baseVars, convVars, getVars, applyVars, ruleVars, acVars,
                   dfVars, delVars>>

GenFail ==
    /\ gen_pc = "loop"
    /\ Len(gen_ret) < Len(changed_routes)
    /\ LET res == nmstate_to_nispor_route_conf(NextChanged) IN
        /\ ~IsOk(res)
        /\ last_conf' = Some([rt |-> NextChanged, res |-> res])
        /\ gen_result' = [val |-> None, err |-> res.err]
    /\ gen_pc' = "done"
    /\ UNCHANGED <<changed_routes, gen_ret,
                   baseVars, convVars, getVars, applyVars, ruleVars, acVars,
                   dfVars, delVars>>

\* Ok(ret)
GenReturn ==
    /\ gen_pc = "loop"
    /\ Len(gen_ret) = Len(changed_routes)
    /\ gen_pc' = "done"
    /\ gen_result' = [val |-> Some(gen_ret), err |-> None]
    /\ UNCHANGED <<changed_routes, gen_ret, last_conf,
                   baseVars, convVars, getVars, applyVars, ruleVars, acVars,
                   dfVars, delVars>>

GenNext == GenPush \/ GenFail \/ GenReturn

SpecGen == GenInit /\ [][GenNext]_vars

LastRt == Unwrap(last_conf).rt

LastRes == Unwrap(last_conf).res

NotImplemented(res) ==
    /\ res.val = None
    /\ IsSome(res.err)
    /\ Unwrap(res.err).kind = "NotImplementedError"

\* C16: translating a route with table id above 255 returns a
\* NotImplementedError and no route configuration; a table id within
\* 0..255 is never the reason of an error, and the table id of a translated
\* route is the desired one, within 0..255.
C16_TableIdRejected ==
    IsSome(last_conf) =>
        /\ (IsSome(LastRt.table_id) /\ Unwrap(LastRt.table_id) > 255)
              => NotImplemented(LastRes)
        /\ (IsSome(LastRt.table_id) /\ Unwrap(LastRt.table_id) \in 0..255
                /\ LastRt.weight = None /\ LastRt.route_type = None
                /\ LastRt.cwnd = None)
              => IsSome(LastRes.val)
        /\ (IsSome(LastRes.val) /\ IsSome(LastRt.table_id))
              => /\ Unwrap(LastRes.val).table = LastRt.table_id
                 /\ Unwrap(LastRt.table_id) \in 0..255

\* C16 witness: of a plan of two routes, the first, with table id 254, was
\* translated with that table id, and the second, with table id 300 and
\* nothing else unsupported, was rejected.
C16_Witness ==
    /\ IsSome(last_conf)
    /\ LastRt.table_id = Some(300)
    /\ LastRt.weight = None /\ LastRt.route_type = None
    /\ LastRt.cwnd = None
    /\ NotImplemented(LastRes)
    /\ Len(changed_routes) = 2 /\ gen_ret # <<>>
    /\ gen_ret[1].table = Some(254)

\* C17: translating a route with a non-zero weight, a route type or a
\* congestion window returns a NotImplementedError and no route
\* configuration.
C17_UnsupportedRejected ==
    IsSome(last_conf) =>
        ((\/ (IsSome(LastRt.weight) /\ Unwrap(LastRt.weight) # 0)
          \/ IsSome(LastRt.route_type)
          \/ IsSome(LastRt.cwnd))
            => NotImplemented(LastRes))

\* C17 witness: a route with weight 1, a valid table id and no other
\* unsupported field was translated and rejected.
C17_Witness ==
    /\ IsSome(last_conf)
    /\ LastRt.weight = Some(1)
    /\ LastRt.table_id = Some(254)
    /\ LastRt.route_type = None /\ LastRt.cwnd = None
    /\ NotImplemented(LastRes)

FirstFailing(i) ==
    /\ ~IsOk(nmstate_to_nispor_route_conf(changed_routes[i]))
    /\ \A j \in 1..(i - 1) :
          IsOk(nmstate_to_nispor_route_conf(changed_routes[j]))

\* C18: gen_nispor_route_confs returns either one record per changed
\* route, in the same order, or no record and the error of the first
\* changed route that fails translation.
C18_AllOrNothing ==
    gen_pc = "done" =>
        \/ /\ IsSome(gen_result.val) /\ gen_result.err = None
           /\ Len(Unwrap(gen_result.val)) = Len(changed_routes)
           /\ \A i \in DOMAIN changed_routes :
                 nmstate_to_nispor_route_conf(changed_routes[i]).val
                    = Some(Unwrap(gen_result.val)[i])
        \/ /\ gen_result.val = None /\ IsSome(gen_result.err)
           /\ \E i \in DOMAIN changed_routes :
                 /\ FirstFailing(i)
                 /\ nmstate_to_nispor_route_conf(changed_routes[i]).err
                       = gen_result.err

\* C18 witness: a plan of two routes whose first route translated and
\* whose second failed, returned as an error.
C18_Witness ==
    /\ gen_pc = "done"
    /\ Len(changed_routes) = 2
    /\ Len(gen_ret) = 1
    /\ gen_result.val = None
    /\ IsSome(gen_result.err)

\* ----------------------------------------------------------------------
\* Deactivate-first detection (nm/query_apply/apply.rs)
\* ----------------------------------------------------------------------
\* An NmConnection, with the settings the deactivate-first tests read.
BaseConn(uuid, name) ==
    [uuid |-> Some(uuid), iface_name |-> Some(name),
     iface_type |-> Some("802-3-ethernet"),
     controller |-> None, controller_type |-> None,
     routes |-> {"r1", "r2"}, vrf_table_id |-> Some(10),
     vlan |-> "id=100", vxlan |-> "id=200", ipvlan |-> "l2",
     veth_peer |-> "veth0p", mptcp_flags |-> "signal", mtu |-> 1500]

\* The tests imported from query_apply: a comparison of the profile to
\* activate with the active one.
is_route_removed(new, cur) == \E r \in cur.routes : r \notin new.routes

is_vrf_table_id_changed(new, cur) == new.vrf_table_id # cur.vrf_table_id

is_vlan_changed(new, cur) == new.vlan # cur.vlan

is_vxlan_changed(new, cur) == new.vxlan # cur.vxlan

is_veth_peer_changed(new, cur) == new.veth_peer # cur.veth_peer

is_mptcp_flags_changed(new, cur) == new.mptcp_flags # cur.mptcp_flags

is_ipvlan_changed(new, cur) == new.ipvlan # cur.ipvlan

\* merged_iface.kernel_ifaces: name, type, default-PVID change and the
\* bond ports whose queue id changed
get_default_pvid_changed_brs(merged_iface) ==
    LET changed == SelectSeq(merged_iface,
                             LAMBDA i : i.is_default_pvid_changed)
    IN  [k \in DOMAIN changed |-> changed[k].name]

RECURSIVE Flatten(_)
Flatten(ss) == IF ss = <<>> THEN <<>> ELSE Head(ss) \o Flatten(Tail(ss))

get_bond_ports_with_queue_id_changed(merged_iface) ==
    LET bonds == SelectSeq(merged_iface,
                           LAMBDA i : /\ (i.is_desired \/ i.is_changed)
                                      /\ i.iface_type = "Bond")
    IN  Flatten([k \in DOMAIN bonds |-> bonds[k].queue_id_changed_ports])

is_bridge_port_changed_default_pvid(nm_conn, default_pvid_changed_brs) ==
    /\ nm_conn.controller_type = Some("bridge")
    /\ IsSome(nm_conn.controller)
    /\ Contains(default_pvid_changed_brs, Unwrap(nm_conn.controller))

is_bond_port_queue_id_changed(nm_conn, changed_ports) ==
    /\ nm_conn.controller_type = Some("bond")
    /\ IsSome(nm_conn.iface_name)
    /\ Contains(changed_ports, Unwrap(nm_conn.iface_name))

\* activated_nm_conns.iter().find(|c| c.uuid() == Some(uuid))
FindActivated(activated_nm_conns, uuid) ==
    LET hits == SelectSeq(activated_nm_conns, LAMBDA c : c.uuid = Some(uuid))
    IN  IF hits = <<>> THEN None ELSE Some(Head(hits))

\* the `||` chain of the loop body
NeedDeactivateFirstNoVrf(nm_conn, cur, brs, ports) ==
    \/ is_route_removed(nm_conn, cur)
    \/ is_vlan_changed(nm_conn, cur)
    \/ is_vxlan_changed(nm_conn, cur)
    \/ is_veth_peer_changed(nm_conn, cur)
    \/ is_mptcp_flags_changed(nm_conn, cur)
    \/ nm_conn.iface_type = Some("vpn")
    \/ is_bridge_port_changed_default_pvid(nm_conn, brs)
    \/ is_bond_port_queue_id_changed(nm_conn, ports)
    \/ is_ipvlan_changed(nm_conn, cur)

NeedDeactivateFirst(nm_conn, cur, brs, ports) ==
    \/ is_route_removed(nm_conn, cur)
    \/ is_vrf_table_id_changed(nm_conn, cur)
    \/ is_vlan_changed(nm_conn, cur)
    \/ is_vxlan_changed(nm_conn, cur)
    \/ is_veth_peer_changed(nm_conn, cur)
    \/ is_mptcp_flags_changed(nm_conn, cur)
    \/ nm_conn.iface_type = Some("vpn")
    \/ is_bridge_port_changed_default_pvid(nm_conn, brs)
    \/ is_bond_port_queue_id_changed(nm_conn, ports)
    \/ is_ipvlan_changed(nm_conn, cur)

RECURSIVE DeactivateFirstLoop(_, _, _, _)
DeactivateFirstLoop(to_activate, activated, brs, ports) ==
    IF to_activate = <<>> THEN <<>>
    ELSE LET nm_conn == Head(to_activate)
             found == IF IsSome(nm_conn.uuid)
                      THEN FindActivated(activated, Unwrap(nm_conn.uuid))
                      ELSE None
             rest == DeactivateFirstLoop(Tail(to_activate), activated,
                                         brs, ports)
         IN  IF IsSome(found)
                /\ NeedDeactivateFirst(nm_conn, Unwrap(found), brs, ports)
             THEN <<Unwrap(found)>> \o rest
             ELSE rest

gen_nm_conn_need_to_deactivate_first(merged_iface, nm_conns_to_activate, activated_nm_conns) ==
    DeactivateFirstLoop(nm_conns_to_activate, activated_nm_conns,
                        get_default_pvid_changed_brs(merged_iface),
                        get_bond_ports_with_queue_id_changed(merged_iface))

\* ----------------------------------------------------------------------
\* Inputs of the deactivate-first detection
\* ----------------------------------------------------------------------
MaxToActivate == 2

IfaceNameOf(uuid) == IF uuid = "u1" THEN "eth1" ELSE "eth2"

\* The active profile of a uuid.
ActiveConn(uuid) == BaseConn(uuid, IfaceNameOf(uuid))

\* Profiles to activate for a uuid: unchanged, changed in one setting, a
\* VPN profile, a port of a bridge or of a bond, and one without uuid.
ConnVariants(uuid) ==
    LET b == ActiveConn(uuid) IN
    {b,
     [b EXCEPT !.mtu = 9000],
     [b EXCEPT !.routes = {"r1", "r2", "r3"}],
     [b EXCEPT !.routes = {"r1"}],
     [b EXCEPT !.vrf_table_id = Some(20)],
     [b EXCEPT !.vlan = "id=101"],
     [b EXCEPT !.vxlan = "id=201"],
     [b EXCEPT !.ipvlan = "l3"],
     [b EXCEPT !.veth_peer = "veth1p"],
     [b EXCEPT !.mptcp_flags = "subflow"],
     [b EXCEPT !.iface_type = Some("vpn")],
     [b EXCEPT !.controller = Some("br0"), !.controller_type = Some("bridge")],
     [b EXCEPT !.controller = Some("br1"), !.controller_type = Some("bridge")],
     [b EXCEPT !.controller = Some("bond0"), !.controller_type = Some("bond")],
     [b EXCEPT !.uuid = None, !.vrf_table_id = Some(20)]}

ToActivateConns == ConnVariants("u1") \cup ConnVariants("u2")

KernelIface(name, type, pvid_changed, touched, ports) ==
    [name |-> name, iface_type |-> type,
     is_default_pvid_changed |-> pvid_changed,
     is_desired |-> touched, is_changed |-> touched,
     queue_id_changed_ports |-> ports]

\* merged_iface.kernel_ifaces: nothing changed; br0 with a default-PVID
\* change, br1 without, bond0 with a queue id change of eth1; the same
\* bridges and bond neither desired nor changed.
MergedIfaceSamples ==
    {<<>>,
     <<KernelIface("br0", "LinuxBridge", TRUE, TRUE, <<>>),
       KernelIface("br1", "LinuxBridge", FALSE, TRUE, <<>>),
       KernelIface("bond0", "Bond", FALSE, TRUE, <<"eth1">>)>>,
     <<KernelIface("br0", "LinuxBridge", FALSE, FALSE, <<>>),
       KernelIface("br1", "LinuxBridge", FALSE, FALSE, <<>>),
       KernelIface("bond0", "Bond", FALSE, FALSE, <<"eth1">>)>>}

ActivatedSamples ==
    {<<>>, <<ActiveConn("u1")>>, <<ActiveConn("u1"), ActiveConn("u2")>>}

DfArgs ==
    [merged_iface : MergedIfaceSamples,
     nm_conns_to_activate :
        UNION {[1..n -> ToActivateConns] : n \in 0..MaxToActivate},
     activated_nm_conns : ActivatedSamples]

DfInit ==
    /\ BaseIdle
    /\ RouteIdle
    /\ GetIdle
    /\ GenIdle
    /\ ApplyIdle
    /\ RuleIdle
    /\ AcIdle
    /\ DelIdle
    /\ df_pc = "call"
    /\ df_args \in {Some(a) : a \in DfArgs}
    /\ df_ret = <<>>

DfArg == Unwrap(df_args)

DfCall ==
    /\ df_pc = "call"
    /\ df_ret' = gen_nm_conn_need_to_deactivate_first(
                    DfArg.merged_iface, DfArg.nm_conns_to_activate,
                    DfArg.activated_nm_conns)
    /\ df_pc' = "done"
    /\ UNCHANGED <<df_args, baseVars, convVars, getVars, genVars, applyVars,
                   ruleVars, acVars, delVars>>

DfNext == DfCall

SpecDf == DfInit /\ [][DfNext]_vars

\* ----------------------------------------------------------------------
\* nm_apply (nm/query_apply/apply.rs)
\* ----------------------------------------------------------------------
\* merged_state.dns as the DNS block reads it
DnsStates ==
    {[needed |-> FALSE, search_or_option_only |-> FALSE,
      iface_desired |-> FALSE, purge |-> FALSE],
     [needed |-> TRUE, search_or_option_only |-> TRUE,
      iface_desired |-> FALSE, purge |-> FALSE],
     [needed |-> TRUE, search_or_option_only |-> FALSE,
      iface_desired |-> TRUE, purge |-> FALSE],
     [needed |-> TRUE, search_or_option_only |-> FALSE,
      iface_desired |-> FALSE, purge |-> TRUE],
     [needed |-> TRUE, search_or_option_only |-> FALSE,
      iface_desired |-> FALSE, purge |-> FALSE]}

MergedStates ==
    [memory_only : BOOLEAN,
     hostname : {None, Some("host1")},
     dns : DnsStates]

\* What delete_ifaces finds: the uuids of the profiles of absent
\* interfaces, the orphan ports that refer to them, and the virtual devices
\* that remain.
DeletePlans ==
    {[absent |-> <<>>, orphan_ports |-> <<>>, devices |-> <<>>],
     [absent |-> <<"u4">>, orphan_ports |-> <<>>, devices |-> <<"dev4">>],
     [absent |-> <<"u4", "u5">>, orphan_ports |-> <<"u6">>,
      devices |-> <<>>]}

\* What perpare_nm_conns returns, the uuids of the active profiles and the
\* uuids of the profiles to activate for which a deactivate-first trigger
\* holds.
ActivatePlans ==
    {[to_store |-> act \o extra, to_activate |-> act,
      to_deactivate |-> deact, active |-> active, trigger |-> trigger] :
        act \in {<<>>, <<"u1">>, <<"u1", "u2">>},
        extra \in {<<>>, <<"u3">>},
        deact \in {<<>>, <<"u3">>},
        active \in {{}, {"u1"}, {"u1", "u2", "u3"}},
        trigger \in {{}, {"u1", "u2"}}}

\* What delete_exist_profiles and delete_orphan_ovs_ports find.
CleanupPlans ==
    [del_exist : {<<>>, <<"u7">>}, orphan_ovs : {<<>>, <<"u8">>}]

Plans ==
    [del : DeletePlans, act : ActivatePlans, cleanup : CleanupPlans]

Op(kind, id) == [op |-> kind, id |-> id, ignore_err |-> FALSE]

OpIgnoringErr(kind, id) == [op |-> kind, id |-> id, ignore_err |-> TRUE]

OpsOf(kind, ids) == [i \in DOMAIN ids |-> Op(kind, ids[i])]

\* The steps of nm_apply in the order of its body.
ApplySteps ==
    <<"new", "delete_ifaces", "hostname", "query", "dns", "prepare",
      "deactivate_first", "save", "delete_exist", "delete_orphan_ovs",
      "activate", "deactivate", "dispatch", "return">>

StepsSaveFirst ==
    <<"new", "delete_ifaces", "hostname", "query", "dns", "prepare",
      "save", "deactivate_first", "delete_exist", "delete_orphan_ovs",
      "activate", "deactivate", "dispatch", "return">>

StepIn(steps, step) ==
    LET i == CHOOSE k \in DOMAIN steps : steps[k] = step
    IN  IF i = Len(steps) THEN "done" ELSE steps[i + 1]

StepAfterSaveFirst(step) == StepIn(StepsSaveFirst, step)

StepAfter(step) == StepIn(ApplySteps, step)

Logged(step, ops, fails) ==
    [i \in DOMAIN ops |->
        [step |-> step, op |-> ops[i].op, id |-> ops[i].id,
         ok |-> i \notin fails]]

\* A step that logs the errors of its operations and goes on.
IssueIgnoringErrors(step, ops) ==
    \E fails \in SUBSET DOMAIN ops :
        /\ oplog' = oplog \o Logged(step, ops, fails)
        /\ apc' = StepAfter(step)
        /\ apply_result' = apply_result

\* A step issues its operations in order; the first failure that is not
\* ignored is returned with `?` and ends nm_apply.
Issue(step, ops) ==
    \E fails \in SUBSET DOMAIN ops :
        LET fatal == {i \in fails : ~ops[i].ignore_err}
            n == IF fatal = {} THEN Len(ops)
                 ELSE CHOOSE i \in fatal : \A j \in fatal : i <= j
        IN  /\ \A i \in fails : i <= n
            /\ oplog' = oplog \o SubSeq(Logged(step, ops, fails), 1, n)
            /\ IF fatal = {}
               THEN /\ apc' = StepAfter(step)
                    /\ apply_result' = apply_result
               ELSE /\ apc' = "done"
                    /\ apply_result' = Some(Err("BackendError", ops[n].op))

ApplyFrame ==
    UNCHANGED <<merged_state, nm_plan, baseVars, convVars, getVars, genVars,
            ruleVars, acVars, dfVars, delVars>>

ApplyInit ==
    /\ BaseIdle
    /\ RouteIdle
    /\ GetIdle
    /\ GenIdle
    /\ RuleIdle
    /\ AcIdle
    /\ DfIdle
    /\ DelIdle
    /\ apc = "new"
    /\ merged_state \in {Some(ms) : ms \in MergedStates}
    /\ nm_plan \in {Some(pl) : pl \in Plans}
    /\ oplog = <<>>
    /\ apply_result = None

MergedState == Unwrap(merged_state)

Plan == Unwrap(nm_plan)

\* NmApi::new()?, check_nm_version, set_checkpoint
ApplyNew ==
    /\ apc = "new"
    /\ Issue("new", <<Op("NmApi::new", "")>>)
    /\ ApplyFrame

\* delete_ifaces: connection_delete of every uuid to delete, then
\* delete_orphan_ports, then delete_remain_virtual_interface_as_desired
delete_ifaces(pl) ==
    <<Op("connections_get", "")>>
    \o OpsOf("connection_delete", pl.del.absent)
    \o <<Op("connections_get", "")>>
    \o OpsOf("connection_delete", pl.del.orphan_ports)
    \o <<Op("devices_get", "")>>
    \o [i \in DOMAIN pl.del.devices |->
            OpIgnoringErr("device_delete", pl.del.devices[i])]

\* delete_ifaces called whatever memory_only is
DeleteIfacesAlways ==
    /\ apc = "delete_ifaces"
    /\ Issue("delete_ifaces", delete_ifaces(Plan))
    /\ ApplyFrame

DeleteIfaces ==
    /\ apc = "delete_ifaces"
    /\ Issue("delete_ifaces",
             IF MergedState.memory_only THEN <<>> ELSE delete_ifaces(Plan))
    /\ ApplyFrame

HostnameSet ==
    /\ apc = "hostname"
    /\ Issue("hostname",
             IF IsSome(MergedState.hostname) /\ ~MergedState.memory_only
             THEN <<Op("hostname_set", Unwrap(MergedState.hostname))>>
             ELSE <<>>)
    /\ ApplyFrame

\* connections_get, active_connections_get, devices_get,
\* store_route_config, store_route_rule_config
QueryBackend ==
    /\ apc = "query"
    /\ Issue("query",
             <<Op("connections_get", ""), Op("active_connections_get", ""),
               Op("devices_get", ""), Op("store_route_config", ""),
               Op("store_route_rule_config", "")>>)
    /\ ApplyFrame

\* The DNS block; iface_ok is the result of store_dns_config_to_iface.
DnsOps(dns, iface_ok) ==
    IF ~dns.needed THEN <<>>
    ELSE <<Op("purge_global_dns_config", "")>> \o
         (IF dns.search_or_option_only
          THEN <<Op("store_dns_search_or_option_to_iface", "")>>
          ELSE IF dns.iface_desired
          THEN (IF iface_ok THEN <<>>
                ELSE <<Op("store_dns_config_via_global_api", "")>>)
          ELSE IF dns.purge
          THEN <<>>
          ELSE <<Op("store_dns_config_via_global_api", "")>>)

DnsPolicy ==
    /\ apc = "dns"
    /\ \E iface_ok \in BOOLEAN :
          Issue("dns", DnsOps(MergedState.dns, iface_ok))
    /\ ApplyFrame

\* perpare_nm_conns(..)?
PrepareConns ==
    /\ apc = "prepare"
    /\ Issue("prepare", <<Op("perpare_nm_conns", "")>>)
    /\ ApplyFrame

\* The active instance of every profile to activate for which a trigger
\* holds, in the order of the profiles to activate.
\* The profiles of the plan as NmConnections: a trigger of the plan is a
\* VRF table id change.
PlanToActivate(pl) ==
    [i \in DOMAIN pl.act.to_activate |->
        LET u == pl.act.to_activate[i] IN
        IF u \in pl.act.trigger
        THEN [BaseConn(u, u) EXCEPT !.vrf_table_id = Some(20)]
        ELSE BaseConn(u, u)]

PlanActivated(pl) ==
    LET ids == SelectSeq(<<"u1", "u2", "u3">>,
                         LAMBDA u : u \in pl.act.active)
    IN  [i \in DOMAIN ids |-> BaseConn(ids[i], ids[i])]

\* let nm_conns_to_deactivate_first = gen_nm_conn_need_to_deactivate_first(..)
DeactivateFirstUuids(pl) ==
    LET first == gen_nm_conn_need_to_deactivate_first(
                    <<>>, PlanToActivate(pl), PlanActivated(pl))
    IN  [i \in DOMAIN first |-> Unwrap(first[i].uuid)]

deactivate_nm_profiles(ids) == OpsOf("deactivate", ids)

save_nm_profiles(ids) == OpsOf("store", ids)

delete_exist_profiles(ids) == OpsOf("connection_delete", ids)

delete_orphan_ovs_ports(ids) == OpsOf("connection_delete", ids)

activate_nm_profiles(ids) == OpsOf("activate", ids)

DeactivateFirst ==
    /\ apc = "deactivate_first"
    /\ Issue("deactivate_first",
             deactivate_nm_profiles(
                 DeactivateFirstUuids(Plan)))
    /\ ApplyFrame

SaveProfiles ==
    /\ apc = "save"
    /\ Issue("save", save_nm_profiles(Plan.act.to_store))
    /\ ApplyFrame

DeleteExistProfiles ==
    /\ apc = "delete_exist"
    /\ Issue("delete_exist",
             IF MergedState.memory_only THEN <<>>
             ELSE delete_exist_profiles(Plan.cleanup.del_exist))
    /\ ApplyFrame

DeleteOrphanOvsPorts ==
    /\ apc = "delete_orphan_ovs"
    /\ Issue("delete_orphan_ovs",
             IF MergedState.memory_only THEN <<>>
             ELSE delete_orphan_ovs_ports(Plan.cleanup.orphan_ovs))
    /\ ApplyFrame

Activate ==
    /\ apc = "activate"
    /\ Issue("activate", activate_nm_profiles(Plan.act.to_activate))
    /\ ApplyFrame

Deactivate ==
    /\ apc = "deactivate"
    /\ Issue("deactivate", deactivate_nm_profiles(Plan.act.to_deactivate))
    /\ ApplyFrame

Dispatch ==
    /\ apc = "dispatch"
    /\ Issue("dispatch", <<Op("apply_dispatch_script", "")>>)
    /\ ApplyFrame

\* Ok(())
ApplyReturn ==
    /\ apc = "return"
    /\ apc' = "done"
    /\ apply_result' = Some(Ok("unit"))
    /\ UNCHANGED oplog
    /\ ApplyFrame

ApplyNext ==
    \/ ApplyNew
    \/ DeleteIfaces
    \/ HostnameSet
    \/ QueryBackend
    \/ DnsPolicy
    \/ PrepareConns
    \/ DeactivateFirst
    \/ SaveProfiles
    \/ DeleteExistProfiles
    \/ DeleteOrphanOvsPorts
    \/ Activate
    \/ Deactivate
    \/ Dispatch
    \/ ApplyReturn

SpecApply == ApplyInit /\ [][ApplyNext]_vars

\* The place of a step in the order of the claim; 0 for the steps it does
\* not name.
Rank(step) ==
    CASE step = "delete_ifaces" -> 1
      [] step = "dns" -> 2
      [] step = "deactivate_first" -> 3
      [] step = "save" -> 4
      [] step \in {"delete_exist", "delete_orphan_ovs"} -> 5
      [] step = "activate" -> 6
      [] step = "deactivate" -> 7
      [] step = "dispatch" -> 8
      [] OTHER -> 0

Succeeded(kind, id, before) ==
    \E i \in 1..(before - 1) :
        oplog[i].op = kind /\ oplog[i].id = id /\ oplog[i].ok

\* C20: the operations nm_apply has issued are in the order deletion of
\* absent interfaces' profiles, DNS, deactivate-first, store, deletion of
\* orphaned profiles and OVS ports, activation, deactivation, dispatch; no
\* profile is stored or activated before every deactivate-first profile was
\* deactivated, and no profile of the destructive set is deactivated before
\* every profile of the constructive set was activated.
C20_ApplyOrder ==
    apc # "off" =>
        /\ \A i, j \in DOMAIN oplog :
              (i < j /\ Rank(oplog[i].step) > 0 /\ Rank(oplog[j].step) > 0)
                 => Rank(oplog[i].step) <= Rank(oplog[j].step)
        /\ \A j \in DOMAIN oplog :
              oplog[j].op \in {"store", "activate"} =>
                 \A u \in Range(DeactivateFirstUuids(Plan)) :
                     Succeeded("deactivate", u, j)
        /\ \A j \in DOMAIN oplog :
              oplog[j].step = "deactivate" =>
                 \A u \in Range(Plan.act.to_activate) :
                     Succeeded("activate", u, j)

\* C20 witness: a run that is not memory-only returned Ok after issuing
\* operations of all eight steps, with two profiles deactivated first.
C20_Witness ==
    /\ apc = "done"
    /\ apply_result = Some(Ok("unit"))
    /\ ~MergedState.memory_only
    /\ Len(DeactivateFirstUuids(Plan)) = 2
    /\ \A r \in 1..8 : \E i \in DOMAIN oplog : Rank(oplog[i].step) = r

ProfileOps == {"connection_delete", "store", "activate", "deactivate"}

\* C21: a failed profile delete, store, activate or deactivate operation
\* is the last operation nm_apply issues, and nm_apply has returned the
\* error of that operation; an error return that follows a logged failure
\* names the operation that failed.
C21_FailureAborts ==
    apc # "off" =>
        \A i \in DOMAIN oplog :
            (oplog[i].op \in ProfileOps /\ ~oplog[i].ok) =>
                /\ i = Len(oplog)
                /\ apc = "done"
                /\ apply_result = Some(Err("BackendError", oplog[i].op))

\* C21 witness: the activation of the second profile failed after the
\* deactivate-first, store and first activate operations succeeded, and
\* nm_apply returned the error.
C21_Witness ==
    /\ apc = "done"
    /\ Len(oplog) > 3
    /\ oplog[Len(oplog)].op = "activate"
    /\ oplog[Len(oplog)].id = "u2"
    /\ ~oplog[Len(oplog)].ok
    /\ Succeeded("activate", "u1", Len(oplog))
    /\ Succeeded("store", "u2", Len(oplog))
    /\ Succeeded("deactivate", "u1", Len(oplog))
    /\ apply_result = Some(Err("BackendError", "activate"))

\* The operations of the log of the given kinds, in log order.
OpsOfKinds(kinds) ==
    LET sel == SelectSeq(oplog, LAMBDA e : e.op \in kinds)
    IN  [i \in DOMAIN sel |-> [op |-> sel[i].op, id |-> sel[i].id]]

PlainOps(kind, ids) == [i \in DOMAIN ids |-> [op |-> kind, id |-> ids[i]]]

\* C28: a memory-only run issues no connection_delete, device_delete or
\* hostname_set operation; a memory-only run that returned Ok has issued
\* the deactivate-first, store, activate and deactivate operations of the
\* plan, in that order.
C28_MemoryOnly ==
    (apc # "off" /\ MergedState.memory_only) =>
        /\ \A i \in DOMAIN oplog :
              /\ oplog[i].op \notin
                    {"connection_delete", "device_delete", "hostname_set"}
              /\ oplog[i].step \notin
                    {"delete_ifaces", "delete_exist", "delete_orphan_ovs",
                     "hostname"}
        /\ (apc = "done" /\ apply_result = Some(Ok("unit"))) =>
              OpsOfKinds({"deactivate", "store", "activate"}) =
                 PlainOps("deactivate",
                          DeactivateFirstUuids(Plan))
                 \o PlainOps("store", Plan.act.to_store)
                 \o PlainOps("activate", Plan.act.to_activate)
                 \o PlainOps("deactivate", Plan.act.to_deactivate)

\* C28 witness: a memory-only run with a hostname desired, profiles of
\* absent interfaces, existing profiles and OVS ports to delete returned Ok
\* after deactivating, storing and activating profiles.
C28_Witness ==
    /\ apc = "done"
    /\ apply_result = Some(Ok("unit"))
    /\ MergedState.memory_only
    /\ IsSome(MergedState.hostname)
    /\ Plan.del.absent # <<>>
    /\ Plan.cleanup.del_exist # <<>>
    /\ Plan.cleanup.orphan_ovs # <<>>
    /\ Len(DeactivateFirstUuids(Plan)) = 2
    /\ Plan.act.to_deactivate # <<>>
    /\ Len(OpsOfKinds({"deactivate", "store", "activate"})) >= 7

\* s can be obtained from t by deleting elements of t
RECURSIVE IsSubList(_, _)
IsSubList(s, t) ==
    IF s = <<>> THEN TRUE
    ELSE IF t = <<>> THEN FALSE
    ELSE IF Head(s) = Head(t) THEN IsSubList(Tail(s), Tail(t))
    ELSE IsSubList(s, Tail(t))

\* C27: in full mode the config view get_routes returns is a sub-list of
\* the running view: its entries appear in the running view in the same
\* relative order.
C27_ConfigSubListOfRunning ==
    (gpc = "done" /\ ~running_config_only) =>
        /\ IsSome(ret.running)
        /\ IsSome(ret.config)
        /\ IsSubList(Unwrap(ret.config), Unwrap(ret.running))
        /\ IsSubList(origin.config, origin.running)

\* C27 witness: a full-mode call returned a config view with entries and a
\* running view that also has an entry of a non-static route.
C27_Witness ==
    /\ gpc = "done"
    /\ ~running_config_only
    /\ Unwrap(ret.config) # <<>>
    /\ Len(Unwrap(ret.running)) > Len(Unwrap(ret.config))
    /\ \E i \in DOMAIN origin.running : ~ConfigFilter(origin.running[i])

\* The wide integer m is within 0..2^32-1.
WithinU32(m) == m.hi \in 0..65535 /\ m.lo \in 0..65535

Translatable(rt) ==
    /\ (IsSome(rt.table_id) => Unwrap(rt.table_id) \in 0..255)
    /\ rt.weight = None
    /\ rt.route_type = None
    /\ rt.cwnd = None

\* C29: the translation of a route with a metric, and with nothing the
\* translation rejects, succeeds; the record has the metric of the route
\* when it is within 0..2^32-1 and no metric when it is negative or above
\* 2^32-1. No translated record has a metric outside 0..2^32-1.
C29_MetricDropped ==
    (IsSome(last_conf) /\ IsSome(LastRt.metric)) =>
        /\ Translatable(LastRt) => IsOk(LastRes)
        /\ IsOk(LastRes) =>
              Unwrap(LastRes.val).metric =
                 IF WithinU32(Unwrap(LastRt.metric)) THEN LastRt.metric
                 ELSE None

\* C29 witness: a route with metric 2^32 was translated to a record
\* without metric.
C29_Witness ==
    /\ IsSome(last_conf)
    /\ LastRt.metric = Some(Wide(65536, 0))
    /\ IsOk(LastRes)
    /\ Unwrap(LastRes.val).metric = None

\* ----------------------------------------------------------------------
\* Route rule action codes (nm/nm_dbus/connection/route_rule.rs)
\* ----------------------------------------------------------------------
RTN_BLACKHOLE == 6

RTN_UNREACHABLE == 7

RTN_PROHIBIT == 8

\* enum NmIpRouteRuleAction
Blackhole == [tag |-> "Blackhole", d |-> None]

Unreachable == [tag |-> "Unreachable", d |-> None]

Prohibit == [tag |-> "Prohibit", d |-> None]

Other(d) == [tag |-> "Other", d |-> Some(d)]

U8 == 0..U8_MAX

NmIpRouteRuleActions == {Blackhole, Unreachable, Prohibit} \cup {Other(d) : d \in U8}

FromU8AlwaysOther(v) == Other(v)

\* impl From<u8> for NmIpRouteRuleAction
NmIpRouteRuleAction_from_u8(v) ==
    IF v = RTN_BLACKHOLE THEN Blackhole
    ELSE IF v = RTN_UNREACHABLE THEN Unreachable
    ELSE IF v = RTN_PROHIBIT THEN Prohibit
    ELSE Other(v)

\* impl From<NmIpRouteRuleAction> for u8
u8_from_NmIpRouteRuleAction(a) ==
    IF a.tag = "Blackhole" THEN RTN_BLACKHOLE
    ELSE IF a.tag = "Unreachable" THEN RTN_UNREACHABLE
    ELSE IF a.tag = "Prohibit" THEN RTN_PROHIBIT
    ELSE Unwrap(a.d)

RuleInit ==
    /\ BaseIdle
    /\ RouteIdle
    /\ GetIdle
    /\ GenIdle
    /\ ApplyIdle
    /\ AcIdle
    /\ DfIdle
    /\ DelIdle
    /\ \/ rr_pc = "u8" /\ rr_in \in {Some(v) : v \in U8}
       \/ rr_pc = "action" /\ rr_in \in {Some(a) : a \in NmIpRouteRuleActions}
    /\ rr_mid = None
    /\ rr_out = None

RuleFrame ==
    UNCHANGED <<rr_in, baseVars, convVars, getVars, genVars, applyVars, acVars,
            dfVars, delVars>>

\* NmIpRouteRuleAction::from(v)
FromU8First ==
    /\ rr_pc = "u8"
    /\ rr_mid' = Some(NmIpRouteRuleAction_from_u8(Unwrap(rr_in)))
    /\ rr_pc' = "u8_mid"
    /\ UNCHANGED rr_out
    /\ RuleFrame

\* u8::from(NmIpRouteRuleAction::from(v))
IntoU8Second ==
    /\ rr_pc = "u8_mid"
    /\ rr_out' = Some(u8_from_NmIpRouteRuleAction(Unwrap(rr_mid)))
    /\ rr_pc' = "u8_done"
    /\ UNCHANGED rr_mid
    /\ RuleFrame

\* u8::from(a)
IntoU8First ==
    /\ rr_pc = "action"
    /\ rr_mid' = Some(u8_from_NmIpRouteRuleAction(Unwrap(rr_in)))
    /\ rr_pc' = "action_mid"
    /\ UNCHANGED rr_out
    /\ RuleFrame

\* NmIpRouteRuleAction::from(u8::from(a))
FromU8Second ==
    /\ rr_pc = "action_mid"
    /\ rr_out' = Some(NmIpRouteRuleAction_from_u8(Unwrap(rr_mid)))
    /\ rr_pc' = "action_done"
    /\ UNCHANGED rr_mid
    /\ RuleFrame

RuleNext == FromU8First \/ IntoU8Second \/ IntoU8First \/ FromU8Second

SpecRule == RuleInit /\ [][RuleNext]_vars

\* C30: a code converted to an action and back is the same code, the
\* action being Blackhole for 6, Unreachable for 7, Prohibit for 8 and
\* Other(code) for any other code; an action other than Other(6), Other(7)
\* and Other(8) converted to a code and back is the same action.
C30_ActionRoundTrip ==
    /\ rr_pc = "u8_done" =>
          /\ rr_out = rr_in
          /\ Unwrap(rr_mid) =
                CASE Unwrap(rr_in) = 6 -> Blackhole
                  [] Unwrap(rr_in) = 7 -> Unreachable
                  [] Unwrap(rr_in) = 8 -> Prohibit
                  [] OTHER -> Other(Unwrap(rr_in))
    /\ (rr_pc = "action_done"
          /\ Unwrap(rr_in) \notin {Other(6), Other(7), Other(8)})
          => rr_out = rr_in

\* C30 witness: the action Unreachable was converted to the code 7 and
\* back to Unreachable.
C30_Witness ==
    /\ rr_pc = "action_done"
    /\ rr_in = Some(Unreachable)
    /\ rr_mid = Some(7)
    /\ rr_out = Some(Unreachable)

\* ----------------------------------------------------------------------
\* Active connection query (nm/nm_dbus/active_connection.rs)
\* ----------------------------------------------------------------------
\* proxy.get_property("Connection"): a read error or the object path read
ConnectionProperties ==
    {[ok |-> FALSE, path |-> ""],
     [ok |-> TRUE, path |-> ""],
     [ok |-> TRUE, path |-> "/"],
     [ok |-> TRUE, path |-> "/org/freedesktop/NetworkManager/Settings/1"],
     [ok |-> TRUE, path |-> "/org/freedesktop/NetworkManager/Settings/2"]}

\* nm_con_get_from_obj_path: an error or the profile read
NmConns ==
    {None} \cup
    {Some([iface_name |-> n, iface_type |-> ty]) :
        n \in {None, Some("eth1")}, ty \in {None, Some("802-3-ethernet")}}

\* What the backend answers for one active connection object.
AcBackends ==
    [proxy_ok : BOOLEAN,
     connection : ConnectionProperties,
     nm_conn : NmConns,
     uuid : {None, Some("uuid-1")},
     state_flags : {None, Some(0), Some(128)}]

AcInit ==
    /\ BaseIdle
    /\ RouteIdle
    /\ GetIdle
    /\ GenIdle
    /\ ApplyIdle
    /\ RuleIdle
    /\ DfIdle
    /\ DelIdle
    /\ ac_pc = "conn_obj_path"
    /\ ac_backend \in {Some(b) : b \in AcBackends}
    /\ nm_conn_obj_path = None
    /\ ac_result = None

AcBackend == Unwrap(ac_backend)

AcFrame ==
    UNCHANGED <<ac_backend, baseVars, convVars, getVars, genVars, applyVars,
                ruleVars, dfVars, delVars>>

\* nm_ac_obj_path_nm_con_obj_path_get: Ok(path), or Ok("") when the
\* property cannot be read
nm_ac_obj_path_nm_con_obj_path_get(b) ==
    IF ~b.proxy_ok THEN Err("BackendError", "zbus::Proxy::new")
    ELSE IF b.connection.ok THEN Ok(b.connection.path)
    ELSE Ok("")

\* let nm_conn_obj_path = nm_ac_obj_path_nm_con_obj_path_get(..)?;
AcGetConnObjPath ==
    /\ ac_pc = "conn_obj_path"
    /\ LET res == nm_ac_obj_path_nm_con_obj_path_get(AcBackend) IN
          IF IsOk(res)
          THEN /\ nm_conn_obj_path' = res.val
               /\ ac_pc' = "test_path"
               /\ ac_result' = ac_result
          ELSE /\ nm_conn_obj_path' = nm_conn_obj_path
               /\ ac_pc' = "done"
               /\ ac_result' = Some([val |-> None, err |-> res.err])
    /\ AcFrame

\* if (!nm_conn_obj_path.is_empty()) && nm_conn_obj_path != "/"
HasConnection(path) == path # "" /\ path # "/"

\* the else arm: Ok(None)
AcReturnNone ==
    /\ ac_pc = "test_path"
    /\ ~HasConnection(Unwrap(nm_conn_obj_path))
    /\ ac_pc' = "done"
    /\ ac_result' = Some(Ok(None))
    /\ UNCHANGED nm_conn_obj_path
    /\ AcFrame

\* the then arm: the profile, the uuid and the state flags are read in
\* this order, each with `?`
AcBuild ==
    /\ ac_pc = "test_path"
    /\ HasConnection(Unwrap(nm_conn_obj_path))
    /\ ac_pc' = "done"
    /\ ac_result' =
          IF AcBackend.nm_conn = None
          THEN Some(Err("BackendError", "nm_con_get_from_obj_path"))
          ELSE IF AcBackend.uuid = None
          THEN Some(Err("Bug", "Uuid"))
          ELSE IF AcBackend.state_flags = None
          THEN Some(Err("Bug", "StateFlags"))
          ELSE LET nm_conn == Unwrap(AcBackend.nm_conn) IN
               Some(Ok(Some(
                   [uuid |-> Unwrap(AcBackend.uuid),
                    iface_name |-> IF IsSome(nm_conn.iface_name)
                                   THEN Unwrap(nm_conn.iface_name) ELSE "",
                    iface_type |-> IF IsSome(nm_conn.iface_type)
                                   THEN Unwrap(nm_conn.iface_type) ELSE "",
                    state_flags |-> Unwrap(AcBackend.state_flags)])))
    /\ UNCHANGED nm_conn_obj_path
    /\ AcFrame

AcNext == AcGetConnObjPath \/ AcReturnNone \/ AcBuild

SpecAc == AcInit /\ [][AcNext]_vars

\* The active connection has no connection object: the Connection property
\* cannot be read, or is empty or "/".
NoConnectionObject(b) ==
    \/ ~b.connection.ok
    \/ b.connection.path \in {"", "/"}

\* C26: the query of an active connection without connection object
\* returns a Bug error.
C26_NoConnectionIsBug ==
    (ac_pc = "done" /\ AcBackend.proxy_ok /\ NoConnectionObject(AcBackend))
        => /\ Unwrap(ac_result).val = None
           /\ IsSome(Unwrap(ac_result).err)
           /\ Unwrap(Unwrap(ac_result).err).kind = "Bug"

\* The triggers as the claim lists them, for a profile n to activate, the
\* active profile c and the merged interfaces.
RouteWasRemoved(n, c) == ~(c.routes \subseteq n.routes)

BridgePortOfChangedPvid(n, ifaces) ==
    /\ n.controller_type = Some("bridge")
    /\ \E k \in DOMAIN ifaces :
          /\ ifaces[k].is_default_pvid_changed
          /\ n.controller = Some(ifaces[k].name)

BondPortOfChangedQueueId(n, ifaces) ==
    /\ n.controller_type = Some("bond")
    /\ \E k \in DOMAIN ifaces :
          /\ ifaces[k].iface_type = "Bond"
          /\ (ifaces[k].is_desired \/ ifaces[k].is_changed)
          /\ \E q \in DOMAIN ifaces[k].queue_id_changed_ports :
                n.iface_name = Some(ifaces[k].queue_id_changed_ports[q])

TriggerHolds(n, c, ifaces) ==
    \/ RouteWasRemoved(n, c)
    \/ n.vrf_table_id # c.vrf_table_id
    \/ n.vlan # c.vlan
    \/ n.vxlan # c.vxlan
    \/ n.ipvlan # c.ipvlan
    \/ n.veth_peer # c.veth_peer
    \/ n.mptcp_flags # c.mptcp_flags
    \/ n.iface_type = Some("vpn")
    \/ BridgePortOfChangedPvid(n, ifaces)
    \/ BondPortOfChangedQueueId(n, ifaces)

\* Entry i of the profiles to activate has an active profile of the same
\* uuid and a trigger holds.
Qualifies(i) ==
    LET n == DfArg.nm_conns_to_activate[i] IN
    /\ IsSome(n.uuid)
    /\ \E c \in Range(DfArg.activated_nm_conns) :
          c.uuid = n.uuid /\ TriggerHolds(n, c, DfArg.merged_iface)

OnlyEntry == DfArg.nm_conns_to_activate[1]

\* C22: the deactivate-first set holds the active instance of a profile if
\* and only if the profile is to activate, an active profile has its uuid
\* and a trigger holds, once per such profile to activate; a VRF table id
\* change 10 -> 20 of an active profile puts it in the set, an MTU-only
\* change and any change of a profile that is not active do not.
C22_DeactivateFirstDetection ==
    df_pc = "done" =>
        /\ Len(df_ret) =
              Cardinality({i \in DOMAIN DfArg.nm_conns_to_activate :
                              Qualifies(i)})
        /\ \A c \in Range(DfArg.activated_nm_conns) :
              c \in Range(df_ret) <=>
                 \E i \in DOMAIN DfArg.nm_conns_to_activate :
                    /\ Qualifies(i)
                    /\ DfArg.nm_conns_to_activate[i].uuid = c.uuid
        /\ Range(df_ret) \subseteq Range(DfArg.activated_nm_conns)
        /\ Len(DfArg.nm_conns_to_activate) = 1 =>
              /\ (/\ OnlyEntry = [ActiveConn("u1") EXCEPT
                                     !.vrf_table_id = Some(20)]
                  /\ DfArg.activated_nm_conns # <<>>)
                    => df_ret = <<ActiveConn("u1")>>
              /\ OnlyEntry = [ActiveConn("u1") EXCEPT !.mtu = 9000]
                    => df_ret = <<>>
              /\ (/\ IsSome(OnlyEntry.uuid)
                  /\ \A c \in Range(DfArg.activated_nm_conns) :
                        c.uuid # OnlyEntry.uuid)
                    => df_ret = <<>>

\* C22 witness: of two profiles to activate, both active, the one whose VRF
\* table id goes from 10 to 20 has its active instance in the set and the
\* one whose MTU changed has not.
C22_Witness ==
    /\ df_pc = "done"
    /\ DfArg.nm_conns_to_activate =
          <<[ActiveConn("u1") EXCEPT !.mtu = 9000],
            [ActiveConn("u2") EXCEPT !.vrf_table_id = Some(20)]>>
    /\ Len(DfArg.activated_nm_conns) = 2
    /\ df_ret = <<ActiveConn("u2")>>

\* ----------------------------------------------------------------------
\* The deletion pass: delete_ifaces (nm/query_apply/apply.rs)
\* ----------------------------------------------------------------------
\* A stored NmConnection, with what the deletion pass reads of it.
StoredConn(uuid, id, name, type, ctrl, ctrl_type, mac) ==
    [uuid |-> uuid, id |-> id, iface_name |-> name, iface_type |-> type,
     controller |-> ctrl, controller_type |-> ctrl_type, mac_address |-> mac]

\* The profiles a backend may hold: two profiles of eth1, a profile bound
\* by MAC address, an OVS bridge, an OVS port naming the bridge by uuid and
\* one naming it by interface name, an OVS interface naming its port by
\* uuid and one naming it by interface name, two IPsec profiles.
ConnEth1 ==
    StoredConn(Some("uuid-eth1"), Some("eth1"), Some("eth1"),
               Some("802-3-ethernet"), None, None, Some("00:1b:aa:00:00:01"))

ConnEth1Alt ==
    StoredConn(Some("uuid-eth1-alt"), Some("office"), Some("eth1"),
               Some("802-3-ethernet"), None, None, None)

ConnMac ==
    StoredConn(Some("uuid-mac"), Some("wan"), None,
               Some("802-3-ethernet"), None, None, Some("00:1B:AA:00:00:02"))

ConnBr0 ==
    StoredConn(Some("uuid-br0"), Some("br0"), Some("br0"),
               Some("ovs-bridge"), None, None, None)

ConnPort0 ==
    StoredConn(Some("uuid-port0"), Some("port0"), Some("port0"),
               Some("ovs-port"), Some("uuid-br0"), Some("ovs-bridge"), None)

ConnPort1 ==
    StoredConn(Some("uuid-port1"), Some("port1"), Some("port1"),
               Some("ovs-port"), Some("br0"), Some("ovs-bridge"), None)

ConnOvs0 ==
    StoredConn(Some("uuid-ovs0"), Some("ovs0"), Some("ovs0"),
               Some("ovs-interface"), Some("uuid-port0"), Some("ovs-port"),
               None)

ConnOvs1 ==
    StoredConn(Some("uuid-ovs1"), Some("ovs1"), Some("ovs1"),
               Some("ovs-interface"), Some("port1"), Some("ovs-port"), None)

ConnVpn ==
    StoredConn(Some("uuid-vpn"), Some("vpn1"), None, Some("vpn"),
               None, None, None)

ConnPool ==
    <<ConnEth1, ConnEth1Alt, ConnMac, ConnBr0, ConnPort0, ConnPort1,
      ConnOvs0, ConnOvs1, ConnVpn>>

\* is_uuid(ctrl)
is_uuid(s) ==
    s \in {"uuid-eth1", "uuid-eth1-alt", "uuid-mac", "uuid-br0",
           "uuid-port0", "uuid-port1", "uuid-ovs0", "uuid-ovs1", "uuid-vpn"}

\* iface_type_to_nm(&iface.iface_type())?: None stands for the Err
iface_type_to_nm(iface_type) ==
    CASE iface_type = "Ethernet" -> Some("802-3-ethernet")
      [] iface_type = "OvsBridge" -> Some("ovs-bridge")
      [] iface_type = "OvsInterface" -> Some("ovs-interface")
      [] iface_type = "Dummy" -> Some("dummy")
      [] OTHER -> None

\* s.to_uppercase() of the MAC addresses of the samples
to_uppercase(s) ==
    CASE s = "00:1b:aa:00:00:01" -> "00:1B:AA:00:00:01"
      [] s = "00:1b:aa:00:00:02" -> "00:1B:AA:00:00:02"
      [] OTHER -> s

\* nm_conns_name_type_index.get(&(name, nm_iface_type))
IndexGet(all_nm_conns, name, nm_iface_type) ==
    SelectSeq(all_nm_conns,
              LAMBDA c : /\ c.iface_name = Some(name)
                         /\ c.iface_type = Some(nm_iface_type))

\* get_match_ipsec_nm_conn(iface.name(), &all_nm_conns)
get_match_ipsec_nm_conn(name, all_nm_conns) ==
    SelectSeq(all_nm_conns,
              LAMBDA c : c.iface_type = Some("vpn") /\ c.id = Some(name))

UuidsOf(conns) ==
    {Unwrap(conns[i].uuid) : i \in {k \in DOMAIN conns : IsSome(conns[k].uuid)}}

\* A merged interface: the merged (desired over current) value and the
\* current interface, if any.
MergedIface(name, type, changed, state, current) ==
    [name |-> name, iface_type |-> type, is_changed |-> changed,
     state |-> state, current |-> current]

\* .filter(|i| i.is_changed() && i.merged.is_absent())
DeleteFilterAbsentOnly(i) == i.state = "Absent"

DeleteFilter(i) == i.is_changed /\ i.state = "Absent"

\* the Vec nm_conns_to_delete of one absent interface
NmConnsToDelete(iface, all_nm_conns) ==
    LET by_name_type ==
            IF iface.iface_type = "Unknown"
            THEN SelectSeq(all_nm_conns,
                           LAMBDA c : c.iface_name = Some(iface.name))
            ELSE IndexGet(all_nm_conns, iface.name,
                          Unwrap(iface_type_to_nm(iface.iface_type)))
        cur == iface.current
        by_profile_name ==
            IF /\ IsSome(cur)
               /\ Unwrap(cur).identifier = Some("MacAddress")
               /\ Unwrap(cur).profile_name = Some(iface.name)
            THEN SelectSeq(all_nm_conns, LAMBDA c : c.id = Some(iface.name))
            ELSE <<>>
        by_mac ==
            IF /\ IsSome(cur)
               /\ Unwrap(cur).identifier = Some("MacAddress")
               /\ Unwrap(cur).name = iface.name
               /\ IsSome(Unwrap(cur).mac_address)
            THEN SelectSeq(all_nm_conns,
                    LAMBDA c :
                        /\ IsSome(c.mac_address)
                        /\ to_uppercase(Unwrap(c.mac_address)) =
                              to_uppercase(Unwrap(Unwrap(cur).mac_address)))
            ELSE <<>>
    IN  by_name_type \o by_profile_name \o by_mac

\* the uuids one profile to delete adds: its own and, for a profile
\* controlled by an OVS port, the port's
UuidsOfConn(nm_conn, all_nm_conns) ==
    UuidsOf(<<nm_conn>>) \cup
    (IF nm_conn.controller_type = Some("ovs-port") /\ IsSome(nm_conn.controller)
     THEN IF is_uuid(Unwrap(nm_conn.controller))
          THEN {Unwrap(nm_conn.controller)}
          ELSE UuidsOf(IndexGet(all_nm_conns, Unwrap(nm_conn.controller),
                                "ovs-port"))
     ELSE {})

\* the uuids one absent interface adds to uuids_to_delete
UuidsOfIface(iface, all_nm_conns) ==
    IF iface.iface_type = "Ipsec"
    THEN UuidsOf(get_match_ipsec_nm_conn(iface.name, all_nm_conns))
    ELSE LET dels == NmConnsToDelete(iface, all_nm_conns)
         IN  UNION {UuidsOfConn(dels[k], all_nm_conns) : k \in DOMAIN dels}

\* iface_type_to_nm(..)? returns the error for this interface
TypeErr(iface) ==
    /\ iface.iface_type \notin {"Ipsec", "Unknown"}
    /\ iface_type_to_nm(iface.iface_type) = None

\* ----------------------------------------------------------------------
\* Inputs of the deletion pass
\* ----------------------------------------------------------------------
MaxIfaces == 2

CurrentByMac(name) ==
    Some([identifier |-> Some("MacAddress"), profile_name |-> Some("wan"),
          name |-> name, mac_address |-> Some("00:1b:aa:00:00:02")])

\* Merged interfaces: eth1 absent, absent but not changed, changed but up,
\* absent without type; the OVS bridge and the two OVS interfaces absent;
\* an IPsec connection absent; the MAC-identified interface absent by
\* profile name and by interface name; a dummy interface absent or down;
\* an interface of a type without NetworkManager type absent or down.
IfaceSamples ==
    {MergedIface("eth1", "Ethernet", TRUE, "Absent", None),
     MergedIface("eth1", "Ethernet", FALSE, "Absent", None),
     MergedIface("eth1", "Ethernet", TRUE, "Up", None),
     MergedIface("eth1", "Unknown", TRUE, "Absent", None),
     MergedIface("br0", "OvsBridge", TRUE, "Absent", None),
     MergedIface("ovs0", "OvsInterface", TRUE, "Absent", None),
     MergedIface("ovs1", "OvsInterface", TRUE, "Absent", None),
     MergedIface("vpn1", "Ipsec", TRUE, "Absent", None),
     MergedIface("wan", "Ethernet", TRUE, "Absent", CurrentByMac("eth2")),
     MergedIface("eth2", "Ethernet", TRUE, "Absent", CurrentByMac("eth2")),
     MergedIface("dummy0", "Dummy", TRUE, "Absent", None),
     MergedIface("dummy0", "Dummy", TRUE, "Down", None),
     MergedIface("tun0", "Other", TRUE, "Absent", None),
     MergedIface("tun0", "Other", TRUE, "Down", None)}

\* what nm_api.connections_get() returns when delete_ifaces starts
StoredSamples ==
    {ConnPool,
     <<ConnEth1, ConnEth1Alt, ConnMac, ConnVpn>>,
     <<ConnBr0, ConnPort0, ConnOvs0>>,
     <<ConnBr0, ConnPort1, ConnOvs1>>,
     <<>>}

\* nm_api.devices_get(): the (name, type) of the devices of the backend
DeviceSamples == {{}, {<<"dummy0", "dummy">>}}

DelArgs ==
    [interfaces : UNION {[1..n -> IfaceSamples] : n \in 0..MaxIfaces},
     conns : StoredSamples,
     devices : DeviceSamples]

DelInit ==
    /\ BaseIdle
    /\ RouteIdle
    /\ GetIdle
    /\ GenIdle
    /\ ApplyIdle
    /\ RuleIdle
    /\ AcIdle
    /\ DfIdle
    /\ del_pc = "select"
    /\ del_args \in {Some(a) : a \in DelArgs}
    /\ stored_conns = Unwrap(del_args).conns
    /\ uuids_to_delete = {}
    /\ del_log = <<>>
    /\ del_result = None

DelArg == Unwrap(del_args)

DelFrame ==
    UNCHANGED <<del_args, baseVars, convVars, getVars, genVars, applyVars,
                ruleVars, acVars, dfVars>>

\* a backend call that failed: delete_ifaces returns the error
DelFails(call) ==
    /\ del_pc' = "done"
    /\ del_result' = Some(Err("BackendError", call))

\* the orders a HashSet may be iterated in
RECURSIVE Orders(_)
Orders(S) ==
    IF S = {} THEN {<<>>}
    ELSE UNION {{<<x>> \o o : o \in Orders(S \ {x})} : x \in S}

\* connection_delete was called for the first n uuids of order; all but a
\* failed last call took the profile out of the backend
DeleteLog(order, n, failed) ==
    [k \in 1..n |->
        [op |-> "connection_delete", id |-> order[k],
         ok |-> ~(failed /\ k = n)]]

Deleted(order, n, failed) ==
    {order[k] : k \in 1..(IF failed THEN n - 1 ELSE n)}

Remaining(conns, deleted) ==
    SelectSeq(conns, LAMBDA c : ~(IsSome(c.uuid) /\ Unwrap(c.uuid) \in deleted))

\* connections_get and the loop over the absent interfaces
DelSelect ==
    /\ del_pc = "select"
    /\ \/ /\ DelFails("connections_get")
          /\ UNCHANGED uuids_to_delete
       \/ LET absent == SelectSeq(DelArg.interfaces, DeleteFilter) IN
          IF \E k \in DOMAIN absent : TypeErr(absent[k])
          THEN /\ del_pc' = "done"
               /\ del_result' = Some(Err("InvalidArgument", "iface_type_to_nm"))
               /\ UNCHANGED uuids_to_delete
          ELSE /\ uuids_to_delete' =
                     UNION {UuidsOfIface(absent[k], stored_conns) :
                               k \in DOMAIN absent}
               /\ del_pc' = "delete"
               /\ UNCHANGED del_result
    /\ UNCHANGED <<stored_conns, del_log>>
    /\ DelFrame

\* for uuid in &uuids_to_delete { nm_api.connection_delete(uuid)?; }
DelDeleteSelected ==
    /\ del_pc = "delete"
    /\ \E order \in Orders(uuids_to_delete) :
       \E n \in 0..Len(order) :
       \E failed \in BOOLEAN :
          /\ failed => n > 0
          /\ ~failed => n = Len(order)
          /\ del_log' = del_log \o DeleteLog(order, n, failed)
          /\ stored_conns' = Remaining(stored_conns, Deleted(order, n, failed))
          /\ IF failed THEN DelFails("connection_delete")
             ELSE del_pc' = "orphans" /\ UNCHANGED del_result
    /\ UNCHANGED uuids_to_delete
    /\ DelFrame

\* the uuids delete_orphan_ports collects from the profiles left
OrphanPortsStale(all_nm_conns, uuids_deleted) ==
    LET ports == SelectSeq(Unwrap(del_args).conns,
                    LAMBDA c : /\ c.iface_type = Some("ovs-port")
                               /\ IsSome(c.controller)
                               /\ Unwrap(c.controller) \in uuids_deleted
                               /\ IsSome(c.uuid))
    IN  [k \in DOMAIN ports |-> Unwrap(ports[k].uuid)]

OrphanPorts(all_nm_conns, uuids_deleted) ==
    LET ports == SelectSeq(all_nm_conns,
                    LAMBDA c : /\ c.iface_type = Some("ovs-port")
                               /\ IsSome(c.controller)
                               /\ Unwrap(c.controller) \in uuids_deleted
                               /\ IsSome(c.uuid))
    IN  [k \in DOMAIN ports |-> Unwrap(ports[k].uuid)]

\* delete_orphan_ports(nm_api, &uuids_to_delete)?
DelOrphanPorts ==
    /\ del_pc = "orphans"
    /\ \/ /\ DelFails("connections_get")
          /\ UNCHANGED <<stored_conns, del_log>>
       \/ LET order == OrphanPorts(stored_conns, uuids_to_delete) IN
          \E n \in 0..Len(order) :
          \E failed \in BOOLEAN :
             /\ failed => n > 0
             /\ ~failed => n = Len(order)
             /\ del_log' = del_log \o DeleteLog(order, n, failed)
             /\ stored_conns' =
                   Remaining(stored_conns, Deleted(order, n, failed))
             /\ IF failed THEN DelFails("connection_delete")
                ELSE del_pc' = "devices" /\ UNCHANGED del_result
    /\ UNCHANGED uuids_to_delete
    /\ DelFrame

\* merged_state.interfaces.kernel_ifaces
IsKernelIface(iface) == iface.iface_type \notin {"OvsBridge", "Ipsec"}

\* iface.is_virtual()
is_virtual(iface) == iface.iface_type \in {"Dummy", "OvsInterface", "Other"}

RemainFilter(iface) ==
    /\ IsKernelIface(iface)
    /\ iface.iface_type # "OvsInterface"
    /\ iface.is_changed
    /\ iface.state \in {"Absent", "Down"}

\* delete_remain_virtual_interface_as_desired(nm_api, merged_state)?: the
\* devices of the virtual interfaces are deleted, errors ignored
DelRemainVirtual ==
    /\ del_pc = "devices"
    /\ \/ /\ DelFails("devices_get")
          /\ UNCHANGED del_log
       \/ LET cand == SelectSeq(DelArg.interfaces,
                                LAMBDA i : RemainFilter(i) /\ is_virtual(i))
              bad == {k \in DOMAIN cand :
                         iface_type_to_nm(cand[k].iface_type) = None}
              n == IF bad = {} THEN Len(cand)
                   ELSE (CHOOSE k \in bad : \A j \in bad : k <= j) - 1
              found == SelectSeq(SubSeq(cand, 1, n),
                          LAMBDA i :
                             <<i.name, Unwrap(iface_type_to_nm(i.iface_type))>>
                                \in DelArg.devices)
          IN  /\ \E fails \in SUBSET DOMAIN found :
                    del_log' = del_log \o
                       [k \in DOMAIN found |->
                           [op |-> "device_delete", id |-> found[k].name,
                            ok |-> k \notin fails]]
              /\ del_pc' = "done"
              /\ del_result' =
                    IF bad = {} THEN Some(Ok("unit"))
                    ELSE Some(Err("InvalidArgument", "iface_type_to_nm"))
    /\ UNCHANGED <<stored_conns, uuids_to_delete>>
    /\ DelFrame

DelNext == DelSelect \/ DelDeleteSelected \/ DelOrphanPorts \/ DelRemainVirtual

SpecDel == DelInit /\ [][DelNext]_vars

\* ----------------------------------------------------------------------
\* Claims on the deletion pass
\* ----------------------------------------------------------------------
\* the uuids connection_delete was called with, in call order
DeleteCalls ==
    LET dels == SelectSeq(del_log, LAMBDA e : e.op = "connection_delete")
    IN  [k \in DOMAIN dels |-> dels[k].id]

DeleteCallSet == {DeleteCalls[k] : k \in DOMAIN DeleteCalls}

DelSucceeded == del_pc = "done" /\ del_result = Some(Ok("unit"))

\* C23: a uuid is in the delete set only on behalf of an interface that is
\* changed and whose merged value is Absent: each uuid of the set belongs
\* to the profiles matched for such an interface, and with no such
\* interface the set is empty and connection_delete is never called.
C23_OnlyChangedAbsent ==
    LET ifaces == DelArg.interfaces
        on_behalf == {k \in DOMAIN ifaces :
                         ifaces[k].is_changed /\ ifaces[k].state = "Absent"}
    IN  /\ \A u \in uuids_to_delete :
              \E k \in on_behalf :
                 /\ ~TypeErr(ifaces[k])
                 /\ u \in UuidsOfIface(ifaces[k], DelArg.conns)
        /\ on_behalf = {} => uuids_to_delete = {} /\ DeleteCalls = <<>>

\* the pass ran for eth1 absent but not changed, next to a changed absent
\* OVS bridge: the bridge's profile was deleted, the profiles of eth1 stay
C23_Witness ==
    /\ DelSucceeded
    /\ \E k \in DOMAIN DelArg.interfaces :
          DelArg.interfaces[k] =
             MergedIface("eth1", "Ethernet", FALSE, "Absent", None)
    /\ "uuid-br0" \in DeleteCallSet
    /\ "uuid-eth1" \notin DeleteCallSet
    /\ \E k \in DOMAIN stored_conns : stored_conns[k] = ConnEth1

TimesIn(seq, x) == Cardinality({k \in DOMAIN seq : seq[k] = x})

\* C24: connection_delete is called at most once per uuid over the whole
\* pass; when the pass succeeds, a deleted profile controlled by an OVS
\* port and the port's profile were both passed to it exactly once.
C24_DeleteOnce ==
    /\ \A u \in DeleteCallSet : TimesIn(DeleteCalls, u) = 1
    /\ DelSucceeded =>
          \A k \in DOMAIN DelArg.conns :
             LET c == DelArg.conns[k] IN
             (/\ c.controller_type = Some("ovs-port")
              /\ IsSome(c.uuid) /\ IsSome(c.controller)
              /\ Unwrap(c.uuid) \in uuids_to_delete
              /\ Unwrap(c.controller) \in uuids_to_delete)
             => /\ TimesIn(DeleteCalls, Unwrap(c.uuid)) = 1
                /\ TimesIn(DeleteCalls, Unwrap(c.controller)) = 1

\* the OVS bridge and an OVS interface absent: the port is reached as the
\* controller of the interface's profile and refers to the deleted bridge
C24_Witness ==
    /\ DelSucceeded
    /\ {"uuid-br0", "uuid-port0", "uuid-ovs0"} \subseteq uuids_to_delete
    /\ TimesIn(DeleteCalls, "uuid-port0") = 1
    /\ TimesIn(DeleteCalls, "uuid-ovs0") = 1

InitialConns == {DelArg.conns[k] : k \in DOMAIN DelArg.conns}

WasDeleted(c) == IsSome(c.uuid) /\ Unwrap(c.uuid) \in DeleteCallSet

\* p is the OVS port profile the field controller of c names
IsControllerOf(p, c) ==
    /\ IsSome(c.controller)
    /\ \/ p.uuid = c.controller
       \/ p.iface_name = c.controller /\ p.iface_type = c.controller_type

\* after a pass that succeeded, the OVS port profile controlling a deleted
\* profile is deleted, named by uuid or by interface name
C25_ControllerDeleted ==
    DelSucceeded =>
       \A c \in InitialConns : \A p \in InitialConns :
          (/\ WasDeleted(c)
           /\ c.controller_type = Some("ovs-port")
           /\ p.iface_type = Some("ovs-port")
           /\ IsControllerOf(p, c))
          => WasDeleted(p)

\* after a pass that succeeded, an OVS port profile whose controller is a
\* deleted profile is deleted
C25_OrphanDeleted ==
    DelSucceeded =>
       \A p \in InitialConns : \A d \in InitialConns :
          (/\ p.iface_type = Some("ovs-port")
           /\ WasDeleted(d)
           /\ IsControllerOf(d, p))
          => WasDeleted(p)

\* C25: after a deletion pass that succeeded, the OVS port profile
\* controlling a deleted profile is deleted, whether named by uuid or by
\* interface name, and every OVS port profile whose controller is a
\* profile deleted in the pass is deleted too.
C25_OvsTransitivity == C25_ControllerDeleted /\ C25_OrphanDeleted

\* the same with the orphan ports limited to those naming the deleted
\* controller by uuid, as delete_orphan_ports tests it
C25_OrphanByUuidDeleted ==
    DelSucceeded =>
       \A p \in InitialConns : \A d \in InitialConns :
          (/\ p.iface_type = Some("ovs-port")
           /\ IsSome(d.uuid) /\ Unwrap(d.uuid) \in uuids_to_delete
           /\ p.controller = d.uuid)
          => WasDeleted(p)

\* the OVS bridge alone absent: the port naming it by uuid is deleted as
\* an orphan
C25_OrphanWitness ==
    /\ DelSucceeded
    /\ uuids_to_delete = {"uuid-br0"}
    /\ "uuid-port0" \in DeleteCallSet

====
